---- MODULE Spec2Model ----
(***************************************************************************)
(* A model of the watson WebAssembly binary decoder (src/src/lib.rs).      *)
(*                                                                         *)
(* The decoder is a pure function of its input bytes.  The model keeps the *)
(* input as a sequence of bytes (integers 0..255), the cursor as the       *)
(* remaining suffix of the input (a Rust slice), and every parser as an    *)
(* operator from a cursor to a result record                               *)
(*     [ok, rest, val, err, panic]                                         *)
(* which is Rust's Result<(&[u8], T), &'static str>, with panic set when   *)
(* the call does not return at all.  Try is Rust's `?`.                    *)
(*                                                                         *)
(* u32 values are kept as their 32-bit pattern read as a signed integer    *)
(* (v for v < 2^31, v - 2^32 otherwise): the representation is one-to-one  *)
(* and stays inside the integers TLC computes with.  A negative pattern    *)
(* therefore stands for a value of at least 2^31.                          *)
(***************************************************************************)
EXTENDS Integers, Sequences, FiniteSets, TLC

VARIABLES
    input,            \* the byte buffer handed to the decoder
    phase,            \* position of the run: "feed", then the decoder's steps
    ip,               \* wasm_module's cursor `ip` (the unconsumed suffix)
    sections,         \* wasm_module's local `sections`
    starts,           \* history: offset in `input` at which each pushed section began
    ret,              \* the value returned by parse
    overflow_checks,  \* build profile: TRUE = arithmetic overflow panics (debug)
    entry,            \* which decoder the run applies to `input`
    fed,              \* how many chunks the environment has appended to `input`
    op,               \* the opcode byte handed to wasm_instruction
    out,              \* the result of a directly applied decoder
    owned,            \* the Program made by ProgramView::to_owned
    query             \* the last lookup on the parsed program and its result

vars == <<input, phase, fed, ip, sections, starts, ret, overflow_checks, entry, op, out,
          owned, query>>

(***************************************************************************)
(* Constants of the `webassembly` crate used by the decoder.               *)
(***************************************************************************)
MAGIC_NUMBER == <<0, 97, 115, 109>>
VERSION_1 == <<1, 0, 0, 0>>

I32 == 127
I64 == 126
F32 == 125
F64 == 124
ANYFUNC == 112
FUNC == 96
MUTABLE == 1
LIMIT_MIN == 0
LIMIT_MIN_MAX == 1

SECTION_CUSTOM == 0
SECTION_TYPE == 1
SECTION_IMPORT == 2
SECTION_FUNCTION == 3
SECTION_TABLE == 4
SECTION_MEMORY == 5
SECTION_GLOBAL == 6
SECTION_EXPORT == 7
SECTION_START == 8
SECTION_ELEMENT == 9
SECTION_CODE == 10
SECTION_DATA == 11

DESC_FUNCTION == 0
DESC_TABLE == 1
DESC_MEMORY == 2
DESC_GLOBAL == 3

UNREACHABLE == 0
NOP == 1
BLOCK == 2
LOOP == 3
\* IF and ELSE of the crate (reserved words here)
OP_IF == 4
OP_ELSE == 5
END == 11
BR == 12
BR_IF == 13
BR_TABLE == 14
RETURN == 15
CALL == 16
CALL_INDIRECT == 17
DROP == 26
SELECT == 27
LOCAL_GET == 32
LOCAL_SET == 33
LOCAL_TEE == 34
GLOBAL_GET == 35
GLOBAL_SET == 36
I32_LOAD == 40
I64_STORE32 == 62
MEMORY_SIZE == 63
MEMORY_GROW == 64
I32_CONST == 65
I64_CONST == 66
F32_CONST == 67
F64_CONST == 68
I32_EQZ == 69
F64_REINTERPRET_I64 == 191

(***************************************************************************)
(* Results.                                                                *)
(***************************************************************************)
Ok(rest, val) ==
    [ok |-> TRUE, rest |-> rest, val |-> val, err |-> "", panic |-> FALSE]

Err(e) == [ok |-> FALSE, rest |-> <<>>, val |-> <<>>, err |-> e, panic |-> FALSE]

\* The thread panics: nothing is returned.
Panic(e) == [ok |-> FALSE, rest |-> <<>>, val |-> <<>>, err |-> e, panic |-> TRUE]

\* &input[n..]
Drop(s, n) == SubSeq(s, n + 1, Len(s))

\* &input[..n]
Take(s, n) == SubSeq(s, 1, n)

(***************************************************************************)
(* Byte combinators.                                                       *)
(***************************************************************************)
\* tag with the comparison loop stopping one byte early.
tag_short_loop(t, in) ==
    IF Len(t) > Len(in) THEN Err("trying to tag too many bytes")
    ELSE IF \E i \in 1..(Len(t) - 1) : t[i] # in[i] THEN Err("did not match tag")
    ELSE Ok(Drop(in, Len(t)), Take(in, Len(t)))

\* take with the cursor left where it was.
take_in_place(num, in) ==
    IF num < 0 \/ num > Len(in) THEN Err("trying to take too many bytes")
    ELSE Ok(in, Take(in, num))

tag(t, in) ==
    IF Len(t) > Len(in) THEN Err("trying to tag too many bytes")
    ELSE IF \E i \in 1..Len(t) : t[i] # in[i] THEN Err("did not match tag")
    ELSE Ok(Drop(in, Len(t)), Take(in, Len(t)))

\* num is a usize made from a u32: a negative pattern is a count >= 2^31,
\* more than any buffer of the model holds.
take(num, in) ==
    IF num < 0 \/ num > Len(in) THEN Err("trying to take too many bytes")
    ELSE Ok(Drop(in, num), Take(in, num))

(***************************************************************************)
(* LEB128 and float primitives of the `webassembly` crate                  *)
(* (try_extract_u32 / _i32 / _i64 / _f32 / _f64 at offset 0).  val is      *)
(* <<value, byte_count>>.                                                  *)
(***************************************************************************)
Pow128(k) == CASE k = 0 -> 1 [] k = 1 -> 128 [] k = 2 -> 16384 [] k = 3 -> 2097152
               [] OTHER -> 268435456

RECURSIVE leb_u32(_, _, _)
leb_u32(in, i, acc) ==
    IF i >= Len(in) THEN Err("insufficient bytes")
    ELSE LET b == in[i + 1]
             payload == b % 128
         IN  IF i = 4 /\ (b >= 128 \/ payload > 15) THEN Err("LEB overflow")
             ELSE LET digit == IF i = 4 /\ payload >= 8 THEN payload - 16 ELSE payload
                      acc2 == acc + digit * Pow128(i)
                  IN  IF b < 128 THEN Ok(in, <<acc2, i + 1>>)
                      ELSE leb_u32(in, i + 1, acc2)

try_extract_u32(in) == leb_u32(in, 0, 0)

RECURSIVE leb_i32(_, _, _)
leb_i32(in, i, acc) ==
    IF i >= Len(in) THEN Err("insufficient bytes")
    ELSE LET b == in[i + 1]
             payload == b % 128
         IN  IF i = 4 /\ b >= 128 THEN Err("LEB overflow")
             ELSE IF i = 4
                  THEN LET low == payload % 16
                           digit == IF low >= 8 THEN low - 16 ELSE low
                       IN  Ok(in, <<acc + digit * Pow128(4), 5>>)
                  ELSE IF b < 128
                       THEN LET digit == IF payload >= 64 THEN payload - 128 ELSE payload
                            IN  Ok(in, <<acc + digit * Pow128(i), i + 1>>)
                       ELSE leb_i32(in, i + 1, acc + payload * Pow128(i))

try_extract_i32(in) == leb_i32(in, 0, 0)

\* An i64 is kept as three limbs <<a, b, c>> of its two's complement pattern:
\* value mod 2^64 = a * 2^56 + b * 2^28 + c, with b, c < 2^28 and a < 2^8.
RECURSIVE leb_digits(_, _, _, _)
leb_digits(in, i, maxbytes, ds) ==
    IF i >= Len(in) THEN Err("insufficient bytes")
    ELSE LET b == in[i + 1]
         IN  IF b < 128 THEN Ok(in, Append(ds, b))
             ELSE IF i + 1 >= maxbytes THEN Err("LEB overflow")
             ELSE leb_digits(in, i + 1, maxbytes, Append(ds, b % 128))

Limb(ds, from, fill) ==
    LET d(k) == IF from + k <= Len(ds) THEN ds[from + k] ELSE fill
    IN  d(0) + d(1) * 128 + d(2) * 16384 + d(3) * 2097152

i64_limbs(in, ds) ==
    LET n == Len(ds)
        neg == ds[n] >= 64
        fill == IF neg THEN 127 ELSE 0
        top == IF n = 10 THEN ds[10] % 2 ELSE IF neg THEN 1 ELSE 0
        a == (IF n >= 9 THEN ds[9] ELSE fill) + 128 * top
    IN  Ok(in, << <<a, Limb(ds, 5, fill), Limb(ds, 1, fill)>>, n >>)

\* The `?` operator: an Err of r is returned, an Ok of r is handed to K.
Try(r, K(_)) == IF ~r.ok THEN Err(r.err) ELSE K(r)

try_extract_i64(in) ==
    Try(leb_digits(in, 0, 10, <<>>), LAMBDA r : i64_limbs(in, r.val))

try_extract_f32(in) ==
    IF Len(in) < 4 THEN Err("insufficient bytes") ELSE Ok(in, <<Take(in, 4), 4>>)

try_extract_f64(in) ==
    IF Len(in) < 8 THEN Err("insufficient bytes") ELSE Ok(in, <<Take(in, 8), 8>>)

\* take(byte_length)(input) after an extraction e = (value, byte_length).
take_extracted(e, in) ==
    Try(take(e.val[2], in), LAMBDA t : Ok(t.rest, e.val[1]))

\* wasm_u32 advancing by one byte whatever the primitive reports.
wasm_u32_one_byte(in) ==
    Try(try_extract_u32(in), LAMBDA e : Try(take(1, in), LAMBDA t : Ok(t.rest, e.val[1])))

wasm_u32(in) == Try(try_extract_u32(in), LAMBDA e : take_extracted(e, in))

wasm_i32(in) == Try(try_extract_i32(in), LAMBDA e : take_extracted(e, in))

wasm_i64(in) == Try(try_extract_i64(in), LAMBDA e : take_extracted(e, in))

wasm_f32(in) == Try(try_extract_f32(in), LAMBDA e : take_extracted(e, in))

wasm_f64(in) == Try(try_extract_f64(in), LAMBDA e : take_extracted(e, in))

(***************************************************************************)
(* Instructions.  An Instruction value is a record: op is the variant's    *)
(* name, imm its integer fields in order, labels the Vec<u32> of BrTable,  *)
(* body the nested Vec<Instruction>, and has_else / els the                *)
(* Option<Vec<Instruction>> of If.                                         *)
(***************************************************************************)
Instr(name, imm, labels, body, has_else, els) ==
    [op |-> name, imm |-> imm, labels |-> labels, body |-> body,
     has_else |-> has_else, els |-> els]

Plain(name) == Instr(name, <<>>, <<>>, <<>>, FALSE, <<>>)

WithImm(name, imm) == Instr(name, imm, <<>>, <<>>, FALSE, <<>>)

\* The variants of the opcodes I32_LOAD .. I64_STORE32, in opcode order.
MemoryVariants == <<
    "I32Load", "I64Load", "F32Load", "F64Load", "I32Load8S", "I32Load8U",
    "I32Load16S", "I32Load16U", "I64Load8S", "I64Load8U", "I64Load16S",
    "I64Load16U", "I64Load32S", "I64Load32U", "I32Store", "I64Store",
    "F32Store", "F64Store", "I32Store8", "I32Store16", "I64Store8",
    "I64Store16", "I64Store32" >>

\* The variants of the opcodes I32_EQZ .. F64_REINTERPRET_I64, in opcode order.
NumericVariants == <<
    "I32Eqz", "I32Eq", "I32Ne", "I32LtS", "I32LtU", "I32GtS", "I32GtU",
    "I32LeS", "I32LeU", "I32GeS", "I32GeU", "I64Eqz", "I64Eq", "I64Ne",
    "I64LtS", "I64LtU", "I64GtS", "I64GtU", "I64LeS", "I64LeU", "I64GeS",
    "I64GeU", "F32Eq", "F32Ne", "F32Lt", "F32Gt", "F32Le", "F32Ge", "F64Eq",
    "F64Ne", "F64Lt", "F64Gt", "F64Le", "F64Ge", "I32Clz", "I32Ctz",
    "I32Popcnt", "I32Add", "I32Sub", "I32Mul", "I32DivS", "I32DivU",
    "I32RemS", "I32RemU", "I32And", "I32Or", "I32Xor", "I32Shl", "I32ShrS",
    "I32ShrU", "I32Rotl", "I32Rotr", "I64Clz", "I64Ctz", "I64Popcnt",
    "I64Add", "I64Sub", "I64Mul", "I64DivS", "I64DivU", "I64RemS", "I64RemU",
    "I64And", "I64Or", "I64Xor", "I64Shl", "I64ShrS", "I64ShrU", "I64Rotl",
    "I64Rotr", "F32AbS", "F32Neg", "F32Ceil", "F32Floor", "F32Trunc",
    "F32Nearest", "F32Sqrt", "F32Add", "F32Sub", "F32Mul", "F32Div", "F32Min",
    "F32Max", "F32Copysign", "F64AbS", "F64Neg", "F64Ceil", "F64Floor",
    "F64Trunc", "F64Nearest", "F64Sqrt", "F64Add", "F64Sub", "F64Mul",
    "F64Div", "F64Min", "F64Max", "F64Copysign", "I32wrapF64", "I32TruncSF32",
    "I32TruncUF32", "I32TruncSF64", "I32TruncUF64", "I64ExtendSI32",
    "I64ExtendUI32", "I64TruncSF32", "I64TruncUF32", "I64TruncSF64",
    "I64TruncUF64", "F32ConvertSI32", "F32ConvertUI32", "F32ConvertSI64",
    "F32ConvertUI64", "F32DemoteF64", "F64ConvertSI32", "F64ConvertUI32",
    "F64ConvertSI64", "F64ConvertUI64", "F64PromoteF32", "I32ReinterpretF32",
    "I64ReinterpretF64", "F32ReinterpretI32", "F64ReinterpretI64" >>

RECURSIVE wasm_instruction(_, _)
RECURSIVE expression_loop(_, _)
RECURSIVE if_loop(_, _)
RECURSIVE else_loop(_, _, _)
RECURSIVE many_loop(_, _, _, _)
RECURSIVE item(_, _)

\* many_n(n, f): f is named by `kind` and applied by item.
many_loop(n, kind, cur, v) ==
    IF n = Len(v) THEN Ok(cur, v)
    ELSE Try(item(kind, cur), LAMBDA r : many_loop(n, kind, r.rest, Append(v, r.val)))

many_n(n, kind, in) == many_loop(n, kind, in, <<>>)

\* An arm that reads one u32 immediate.
ArmU32(name, in) ==
    Try(wasm_u32(in), LAMBDA r : Ok(r.rest, WithImm(name, <<r.val>>)))

\* An arm that reads align and offset.
ArmMem(name, in) ==
    Try(wasm_u32(in), LAMBDA a :
    Try(wasm_u32(a.rest), LAMBDA o :
        Ok(o.rest, WithImm(name, <<a.val, o.val>>))))

\* ArmReserved accepting only the reserved value 0.
ArmReserved_must_be_zero(name, in) ==
    Try(wasm_u32(in), LAMBDA r :
        IF r.val # 0 THEN Err("reserved immediate must be 0") ELSE Ok(r.rest, Plain(name)))

\* An arm that reads a reserved u32 and drops it.
ArmReserved(name, in) ==
    Try(wasm_u32(in), LAMBDA r : Ok(r.rest, Plain(name)))

wasm_expression(in) == expression_loop(in, <<>>)

wasm_if_else(in) == if_loop(in, <<>>)

\* ArmBlock leaving the nested END to the enclosing stream.
ArmBlock_shared_end(name, in) ==
    Try(take(1, in), LAMBDA t :
    Try(wasm_expression(t.rest), LAMBDA e :
        Ok(<<END>> \o e.rest, Instr(name, <<t.val[1]>>, <<>>, e.val, FALSE, <<>>))))

\* The BLOCK and LOOP arms.
ArmBlock(name, in) ==
    Try(take(1, in), LAMBDA t :
    Try(wasm_expression(t.rest), LAMBDA e :
        Ok(e.rest, Instr(name, <<t.val[1]>>, <<>>, e.val, FALSE, <<>>))))

ArmIf(in) ==
    Try(take(1, in), LAMBDA t :
    Try(wasm_if_else(t.rest), LAMBDA e :
        Ok(e.rest, Instr("If", <<t.val[1]>>, <<>>, e.val[1], e.val[2], e.val[3]))))

\* ArmBrTable with the default label taken for the last of the labels.
ArmBrTable_default_in_labels(in) ==
    Try(wasm_u32(in), LAMBDA n :
    Try(many_n(n.val, "u32", n.rest), LAMBDA ls :
        IF ls.val = <<>> THEN Err("insufficient bytes")
        ELSE Ok(ls.rest, Instr("BrTable", <<ls.val[Len(ls.val)]>>,
                               Take(ls.val, Len(ls.val) - 1), <<>>, FALSE, <<>>))))

\* The BR_TABLE arm.
ArmBrTable(in) ==
    Try(wasm_u32(in), LAMBDA n :
    Try(many_n(n.val, "u32", n.rest), LAMBDA ls :
    Try(wasm_u32(ls.rest), LAMBDA d :
        Ok(d.rest, Instr("BrTable", <<d.val>>, ls.val, <<>>, FALSE, <<>>)))))

ArmCallIndirect(in) ==
    Try(wasm_u32(in), LAMBDA idx :
    Try(wasm_u32(idx.rest), LAMBDA r :
        Ok(r.rest, WithImm("Call", <<idx.val>>))))

\* An arm that reads a typed constant with `reader`'s result r.
ArmConst(name, r) ==
    IF ~r.ok THEN Err(r.err) ELSE Ok(r.rest, WithImm(name, <<r.val>>))

\* The default arm with a raw placeholder instruction instead of the error.
unknown_opcode_raw(opcode, in) == Ok(in, WithImm("Raw", <<opcode>>))

\* The default arm of wasm_instruction.
unknown_opcode(opcode, in) == Err("unknown expression")

\* The variant of an opcode whose arm reads one u32 immediate.
U32Variant(opcode) ==
    CASE opcode = BR -> "Br"
      [] opcode = BR_IF -> "BrIf"
      [] opcode = CALL -> "Call"
      [] opcode = LOCAL_GET -> "LocalGet"
      [] opcode = LOCAL_SET -> "LocalSet"
      [] opcode = LOCAL_TEE -> "LocalTee"
      [] opcode = GLOBAL_GET -> "GlobalGet"
      [] opcode = GLOBAL_SET -> "GlobalSet"

\* The variant of an opcode whose arm reads nothing.
PlainVariant(opcode) ==
    CASE opcode = UNREACHABLE -> "Unreachable"
      [] opcode = NOP -> "Nop"
      [] opcode = RETURN -> "Return"
      [] opcode = DROP -> "Drop"
      [] opcode = SELECT -> "Select"
      [] OTHER -> NumericVariants[opcode - I32_EQZ + 1]

wasm_instruction(opcode, in) ==
    CASE opcode \in {UNREACHABLE, NOP, RETURN, DROP, SELECT} ->
            Ok(in, Plain(PlainVariant(opcode)))
      [] opcode \in {BLOCK, LOOP} ->
            ArmBlock(IF opcode = BLOCK THEN "Block" ELSE "Loop", in)
      [] opcode = OP_IF -> ArmIf(in)
      [] opcode \in {BR, BR_IF, CALL} -> ArmU32(U32Variant(opcode), in)
      [] opcode = BR_TABLE -> ArmBrTable(in)
      [] opcode = CALL_INDIRECT -> ArmCallIndirect(in)
      [] opcode = I32_CONST -> ArmConst("I32Const", wasm_i32(in))
      [] opcode = I64_CONST -> ArmConst("I64Const", wasm_i64(in))
      [] opcode = F32_CONST -> ArmConst("F32Const", wasm_f32(in))
      [] opcode = F64_CONST -> ArmConst("F64Const", wasm_f64(in))
      [] opcode \in LOCAL_GET..GLOBAL_SET -> ArmU32(U32Variant(opcode), in)
      [] opcode \in I32_LOAD..I64_STORE32 ->
            ArmMem(MemoryVariants[opcode - I32_LOAD + 1], in)
      [] opcode \in {MEMORY_GROW, MEMORY_SIZE} ->
            ArmReserved(IF opcode = MEMORY_GROW THEN "MemoryGrow" ELSE "MemorySize", in)
      [] opcode \in I32_EQZ..F64_REINTERPRET_I64 ->
            Ok(in, Plain(PlainVariant(opcode)))
      [] OTHER -> unknown_opcode(opcode, in)

\* expression_loop returning the cursor at the END byte instead of after it.
expression_loop_keep_end(cur, instructions) ==
    Try(take(1, cur), LAMBDA t :
        IF t.val[1] = END THEN Ok(cur, instructions)
        ELSE Try(wasm_instruction(t.val[1], t.rest), LAMBDA r :
                expression_loop(r.rest, Append(instructions, r.val))))

\* wasm_expression's loop.
expression_loop(cur, instructions) ==
    Try(take(1, cur), LAMBDA t :
        IF t.val[1] = END THEN Ok(t.rest, instructions)
        ELSE Try(wasm_instruction(t.val[1], t.rest), LAMBDA r :
                expression_loop(r.rest, Append(instructions, r.val))))

\* else_loop taking a further ELSE as the start of the else-branch again.
else_loop_again(cur, if_instructions, else_instructions) ==
    Try(take(1, cur), LAMBDA t :
        IF t.val[1] = END THEN Ok(t.rest, <<if_instructions, TRUE, else_instructions>>)
        ELSE IF t.val[1] = OP_ELSE THEN else_loop(t.rest, if_instructions, <<>>)
        ELSE Try(wasm_instruction(t.val[1], t.rest), LAMBDA r :
                else_loop(r.rest, if_instructions, Append(else_instructions, r.val))))

\* wasm_if_else's second loop; val is <<if_instructions, more, else_instructions>>.
else_loop(cur, if_instructions, else_instructions) ==
    Try(take(1, cur), LAMBDA t :
        IF t.val[1] = END THEN Ok(t.rest, <<if_instructions, TRUE, else_instructions>>)
        ELSE Try(wasm_instruction(t.val[1], t.rest), LAMBDA r :
                else_loop(r.rest, if_instructions, Append(else_instructions, r.val))))

\* wasm_if_else's first loop.
if_loop(cur, if_instructions) ==
    Try(take(1, cur), LAMBDA t :
        IF t.val[1] = END THEN Ok(t.rest, <<if_instructions, FALSE, <<>> >>)
        ELSE IF t.val[1] = OP_ELSE THEN else_loop(t.rest, if_instructions, <<>>)
        ELSE Try(wasm_instruction(t.val[1], t.rest), LAMBDA r :
                if_loop(r.rest, Append(if_instructions, r.val))))

(***************************************************************************)
(* Section bodies.  Strings and byte slices are kept as byte sequences.    *)
(***************************************************************************)
\* core::str::from_utf8(bytes).is_ok()
RECURSIVE IsUtf8(_)
IsUtf8(bs) ==
    LET n == Len(bs)
        cont(k) == k <= n /\ bs[k] \in 128..191
        within(k, lo, hi) == k <= n /\ bs[k] \in lo..hi
    IN  IF n = 0 THEN TRUE
        ELSE LET b == bs[1]
             IN  CASE b < 128 -> IsUtf8(Drop(bs, 1))
                   [] b \in 194..223 -> cont(2) /\ IsUtf8(Drop(bs, 2))
                   [] b = 224 -> within(2, 160, 191) /\ cont(3) /\ IsUtf8(Drop(bs, 3))
                   [] b \in 225..236 \/ b \in 238..239 ->
                         cont(2) /\ cont(3) /\ IsUtf8(Drop(bs, 3))
                   [] b = 237 -> within(2, 128, 159) /\ cont(3) /\ IsUtf8(Drop(bs, 3))
                   [] b = 240 ->
                         within(2, 144, 191) /\ cont(3) /\ cont(4) /\ IsUtf8(Drop(bs, 4))
                   [] b \in 241..243 ->
                         cont(2) /\ cont(3) /\ cont(4) /\ IsUtf8(Drop(bs, 4))
                   [] b = 244 ->
                         within(2, 128, 143) /\ cont(3) /\ cont(4) /\ IsUtf8(Drop(bs, 4))
                   [] OTHER -> FALSE

\* ValueType::try_from(u8); val is the variant's name.
ValueType_try_from(value) ==
    CASE value = I32 -> Ok(<<>>, "I32")
      [] value = I64 -> Ok(<<>>, "I64")
      [] value = F32 -> Ok(<<>>, "F32")
      [] value = F64 -> Ok(<<>>, "F64")
      [] OTHER -> Err("could not convert data type")

RECURSIVE value_types_loop(_, _, _)
value_types_loop(bytes, k, r) ==
    IF k > Len(bytes) THEN Ok(<<>>, r)
    ELSE Try(ValueType_try_from(bytes[k]), LAMBDA v :
             value_types_loop(bytes, k + 1, Append(r, v.val)))

try_to_value_types(bytes) == value_types_loop(bytes, 1, <<>>)

\* wasm_string without the UTF-8 validation.
wasm_string_unchecked(in) ==
    Try(wasm_u32(in), LAMBDA n :
    Try(take(n.val, n.rest), LAMBDA c : Ok(c.rest, c.val)))

wasm_string(in) ==
    Try(wasm_u32(in), LAMBDA n :
    Try(take(n.val, n.rest), LAMBDA c :
        IF ~IsUtf8(c.val) THEN Err("could not parse utf8 string")
        ELSE Ok(c.rest, c.val)))

\* val is <<value_type, is_mutable>>.
wasm_global_type(in) ==
    Try(take(1, in), LAMBDA a :
    Try(take(1, a.rest), LAMBDA b :
    Try(ValueType_try_from(a.val[1]), LAMBDA v :
        Ok(b.rest, <<v.val, b.val[1] = MUTABLE>>))))

\* val is <<min, has_max, max>> for (usize, Option<usize>).
wasm_limit(in) ==
    Try(take(1, in), LAMBDA t :
        CASE t.val[1] = LIMIT_MIN_MAX ->
                Try(wasm_u32(t.rest), LAMBDA mn :
                Try(wasm_u32(mn.rest), LAMBDA mx :
                    Ok(mx.rest, <<mn.val, TRUE, mx.val>>)))
          [] t.val[1] = LIMIT_MIN ->
                Try(wasm_u32(t.rest), LAMBDA mn :
                    Ok(mn.rest, <<mn.val, FALSE, 0>>))
          [] OTHER -> Err("unhandled memory type"))

\* The closure of the SECTION_TYPE arm.
type_item(in) ==
    Try(take(1, in), LAMBDA t :
        IF t.val[1] # FUNC THEN Err("unknown type")
        ELSE Try(wasm_u32(t.rest), LAMBDA ni :
             Try(take(ni.val, ni.rest), LAMBDA i :
             Try(wasm_u32(i.rest), LAMBDA no :
             Try(take(no.val, no.rest), LAMBDA o :
             Try(try_to_value_types(i.val), LAMBDA iv :
             Try(try_to_value_types(o.val), LAMBDA ov :
                 Ok(o.rest, [kind |-> "Function",
                             inputs |-> iv.val,
                             outputs |-> ov.val]))))))))

\* The closure of the SECTION_EXPORT arm.
export_item(in) ==
    Try(wasm_string(in), LAMBDA name :
    Try(take(1, name.rest), LAMBDA ty :
    Try(wasm_u32(ty.rest), LAMBDA idx :
        IF ty.val[1] \in {DESC_FUNCTION, DESC_MEMORY, DESC_GLOBAL, DESC_TABLE}
        THEN Ok(idx.rest,
                [kind |-> CASE ty.val[1] = DESC_FUNCTION -> "Function"
                            [] ty.val[1] = DESC_MEMORY -> "Memory"
                            [] ty.val[1] = DESC_GLOBAL -> "Global"
                            [] ty.val[1] = DESC_TABLE -> "Table",
                 name |-> name.val,
                 index |-> idx.val])
        ELSE Err("unknown export"))))

\* The inner closure of the SECTION_CODE arm; val is <<num_locals, value type>>.
local_item(in) ==
    Try(wasm_u32(in), LAMBDA n :
    Try(take(1, n.rest), LAMBDA t :
    Try(ValueType_try_from(t.val[1]), LAMBDA v :
        Ok(t.rest, <<n.val, v.val>>))))

\* code_item reading the body out of the `size` bytes that follow the size.
code_item_within_size(in) ==
    Try(wasm_u32(in), LAMBDA size :
    Try(take(size.val, size.rest), LAMBDA body :
    Try(wasm_u32(body.val), LAMBDA nl :
    Try(many_n(nl.val, "local", nl.rest), LAMBDA lv :
    Try(wasm_expression(lv.rest), LAMBDA e :
        Ok(body.rest, [locals |-> lv.val, code_expression |-> e.val]))))))

\* The closure of the SECTION_CODE arm.
code_item(in) ==
    Try(wasm_u32(in), LAMBDA size :
    Try(wasm_u32(size.rest), LAMBDA nl :
    Try(many_n(nl.val, "local", nl.rest), LAMBDA lv :
    Try(wasm_expression(lv.rest), LAMBDA e :
        Ok(e.rest, [locals |-> lv.val, code_expression |-> e.val])))))

\* The closure of the SECTION_IMPORT arm.
import_item(in) ==
    Try(wasm_string(in), LAMBDA module_name :
    Try(wasm_string(module_name.rest), LAMBDA name :
    Try(take(1, name.rest), LAMBDA ty :
        CASE ty.val[1] = DESC_FUNCTION ->
                Try(wasm_u32(ty.rest), LAMBDA ti :
                    Ok(ti.rest, [kind |-> "Function",
                                 module_name |-> module_name.val,
                                 name |-> name.val,
                                 type_index |-> ti.val]))
          [] ty.val[1] = DESC_GLOBAL ->
                Try(wasm_limit(ty.rest), LAMBDA l :
                    Ok(l.rest, [kind |-> "Memory",
                                module_name |-> module_name.val,
                                name |-> name.val,
                                min_pages |-> l.val[1],
                                has_max |-> l.val[2],
                                max_pages |-> l.val[3]]))
          [] ty.val[1] = DESC_TABLE ->
                Try(take(1, ty.rest), LAMBDA et :
                Try(wasm_limit(et.rest), LAMBDA l :
                    Ok(l.rest, [kind |-> "Table",
                                module_name |-> module_name.val,
                                name |-> name.val,
                                element_type |-> et.val[1],
                                min |-> l.val[1],
                                has_max |-> l.val[2],
                                max |-> l.val[3]])))
          [] ty.val[1] = DESC_MEMORY ->
                Try(wasm_global_type(ty.rest), LAMBDA g :
                    Ok(g.rest, [kind |-> "Global",
                                module_name |-> module_name.val,
                                name |-> name.val,
                                value_type |-> g.val[1],
                                is_mutable |-> g.val[2]]))
          [] OTHER -> Err("unknown export"))))

\* The closure of the SECTION_GLOBAL arm.
global_item(in) ==
    Try(wasm_global_type(in), LAMBDA g :
    Try(wasm_expression(g.rest), LAMBDA e :
        Ok(e.rest, [value_type |-> g.val[1], is_mutable |-> g.val[2],
                    value_expression |-> e.val])))

\* The closure of the SECTION_TABLE arm.
table_item(in) ==
    Try(take(1, in), LAMBDA et :
        IF et.val[1] = ANYFUNC
        THEN Try(wasm_limit(et.rest), LAMBDA l :
                 Ok(l.rest, [element_type |-> et.val[1], min |-> l.val[1],
                             has_max |-> l.val[2], max |-> l.val[3]]))
        ELSE Err("unknown table type"))

\* The closure of the SECTION_DATA arm.
data_item(in) ==
    Try(wasm_u32(in), LAMBDA m :
    Try(wasm_expression(m.rest), LAMBDA e :
    Try(wasm_u32(e.rest), LAMBDA n :
    Try(take(n.val, n.rest), LAMBDA d :
        Ok(d.rest, [memory |-> m.val, offset_expression |-> e.val, data |-> d.val])))))

\* The closure of the SECTION_MEMORY arm.
memory_item(in) ==
    Try(wasm_limit(in), LAMBDA l :
        Ok(l.rest, [min_pages |-> l.val[1], has_max |-> l.val[2],
                    max_pages |-> l.val[3]]))

\* The closure of the SECTION_ELEMENT arm.
element_item(in) ==
    Try(wasm_u32(in), LAMBDA tb :
    Try(wasm_expression(tb.rest), LAMBDA e :
    Try(wasm_u32(e.rest), LAMBDA n :
    Try(many_n(n.val, "u32", n.rest), LAMBDA f :
        Ok(f.rest, [table |-> tb.val, value_expression |-> e.val,
                    functions |-> f.val])))))

\* The element parsers handed to many_n.
item(kind, in) ==
    CASE kind = "u32" -> wasm_u32(in)
      [] kind = "type" -> type_item(in)
      [] kind = "export" -> export_item(in)
      [] kind = "local" -> local_item(in)
      [] kind = "code" -> code_item(in)
      [] kind = "import" -> import_item(in)
      [] kind = "global" -> global_item(in)
      [] kind = "table" -> table_item(in)
      [] kind = "data" -> data_item(in)
      [] kind = "memory" -> memory_item(in)
      [] kind = "element" -> element_item(in)

\* The SectionView variant and the element parser of the arms of section that
\* decode a count-prefixed vector.
VecVariant(id) ==
    CASE id = SECTION_TYPE -> <<"Type", "type">>
      [] id = SECTION_FUNCTION -> <<"Function", "u32">>
      [] id = SECTION_EXPORT -> <<"Export", "export">>
      [] id = SECTION_CODE -> <<"Code", "code">>
      [] id = SECTION_IMPORT -> <<"Import", "import">>
      [] id = SECTION_GLOBAL -> <<"Global", "global">>
      [] id = SECTION_TABLE -> <<"Table", "table">>
      [] id = SECTION_DATA -> <<"Data", "data">>
      [] id = SECTION_MEMORY -> <<"Memory", "memory">>
      [] id = SECTION_ELEMENT -> <<"Element", "element">>

\* An arm of section that is a count-prefixed vector: val is the SectionView.
VecSection(variant, kind, in) ==
    Try(wasm_u32(in), LAMBDA n :
    Try(many_n(n.val, kind, n.rest), LAMBDA items :
        Ok(items.rest, [kind |-> variant, items |-> items.val])))

\* The SECTION_START arm.
StartArm(in) ==
    Try(wasm_u32(in), LAMBDA s :
        Ok(s.rest, [kind |-> "Start", start_function |-> s.val]))

\* custom_data with the name's bytes not taken off the section length.
custom_data_whole_length(section_length, name_bytes_length, c, checks) ==
    IF ~IsUtf8(c.val) THEN Err("could not parse utf8 string")
    ELSE Try(take(section_length, c.rest), LAMBDA b :
             Ok(b.rest, [kind |-> "Custom", name |-> c.val, data |-> b.val]))

\* The end of the SECTION_CUSTOM arm, after the name c.
\* section_length as usize - name_bytes_length overflows when the length is
\* the smaller: with overflow checks the thread panics, without them the
\* difference wraps to more than any buffer holds.
custom_data(section_length, name_bytes_length, c, checks) ==
    IF ~IsUtf8(c.val) THEN Err("could not parse utf8 string")
    ELSE IF section_length >= 0 /\ section_length < name_bytes_length
         THEN IF checks THEN Panic("attempt to subtract with overflow")
              ELSE Err("trying to take too many bytes")
    ELSE Try(take(section_length - name_bytes_length, c.rest), LAMBDA b :
             Ok(b.rest, [kind |-> "Custom", name |-> c.val, data |-> b.val]))

\* The SECTION_CUSTOM arm; e.val is (num_chars, byte_count).
CustomArm(section_length, in, checks) ==
    Try(try_extract_u32(in), LAMBDA e :
    Try(take(e.val[2], in), LAMBDA t :
    Try(take(e.val[1], t.rest), LAMBDA c :
        custom_data(section_length, e.val[2] + e.val[1], c, checks))))

\* section with a section of unknown id skipped by its declared length.
section_skip_unknown(in, checks) ==
    Try(take(1, in), LAMBDA id :
    Try(wasm_u32(id.rest), LAMBDA len :
        CASE id.val[1] \in {SECTION_TYPE, SECTION_FUNCTION, SECTION_EXPORT, SECTION_CODE,
                            SECTION_IMPORT, SECTION_GLOBAL, SECTION_TABLE, SECTION_DATA,
                            SECTION_MEMORY, SECTION_ELEMENT} ->
                VecSection(VecVariant(id.val[1])[1], VecVariant(id.val[1])[2], len.rest)
          [] id.val[1] = SECTION_START -> StartArm(len.rest)
          [] id.val[1] = SECTION_CUSTOM -> CustomArm(len.val, len.rest, checks)
          [] OTHER -> Try(take(len.val, len.rest), LAMBDA b :
                          Ok(b.rest, [kind |-> "Unknown", data |-> b.val]))))

\* section with the body required to lie within the declared length.
section_within_length(in, checks) ==
    Try(take(1, in), LAMBDA id :
    Try(wasm_u32(id.rest), LAMBDA len :
    Try(take(len.val, len.rest), LAMBDA body :
        CASE id.val[1] \in {SECTION_TYPE, SECTION_FUNCTION, SECTION_EXPORT, SECTION_CODE,
                            SECTION_IMPORT, SECTION_GLOBAL, SECTION_TABLE, SECTION_DATA,
                            SECTION_MEMORY, SECTION_ELEMENT} ->
                VecSection(VecVariant(id.val[1])[1], VecVariant(id.val[1])[2], len.rest)
          [] id.val[1] = SECTION_START -> StartArm(len.rest)
          [] id.val[1] = SECTION_CUSTOM -> CustomArm(len.val, len.rest, checks)
          [] OTHER -> Err("unknow section"))))

section(in, checks) ==
    Try(take(1, in), LAMBDA id :
    Try(wasm_u32(id.rest), LAMBDA len :
        CASE id.val[1] \in {SECTION_TYPE, SECTION_FUNCTION, SECTION_EXPORT, SECTION_CODE,
                            SECTION_IMPORT, SECTION_GLOBAL, SECTION_TABLE, SECTION_DATA,
                            SECTION_MEMORY, SECTION_ELEMENT} ->
                VecSection(VecVariant(id.val[1])[1], VecVariant(id.val[1])[2], len.rest)
          [] id.val[1] = SECTION_START -> StartArm(len.rest)
          [] id.val[1] = SECTION_CUSTOM -> CustomArm(len.val, len.rest, checks)
          [] OTHER -> Err("unknow section")))


(***************************************************************************)
(* ProgramView, Program and their methods.  A ProgramView is the sequence  *)
(* of SectionViews wasm_module returns; its strings and byte arrays are    *)
(* slices of the input.  A Program owns its strings (String) and byte      *)
(* arrays (Vec<u8>), kept here as records around a copy of the bytes.      *)
(***************************************************************************)
\* <&str>::to_string
to_string(str) == [string |-> [i \in 1..Len(str) |-> str[i]]]

\* <&[u8]>::to_vec
to_vec(slice) == [vec |-> [i \in 1..Len(slice) |-> slice[i]]]

\* ExportSectionView::to_owned with Memory and Global exports exchanged.
WasmExportView_to_owned_swapped(x) ==
    [kind |-> CASE x.kind = "Function" -> "Function"
                [] x.kind = "Global" -> "Memory"
                [] x.kind = "Memory" -> "Global"
                [] x.kind = "Table" -> "Table",
     name |-> to_string(x.name),
     index |-> x.index]

\* The closure of ExportSectionView::to_owned: each variant is rebuilt as the
\* variant of the same name.
WasmExportView_to_owned(x) ==
    CASE x.kind = "Function" ->
            [kind |-> "Function", name |-> to_string(x.name), index |-> x.index]
      [] x.kind = "Global" ->
            [kind |-> "Global", name |-> to_string(x.name), index |-> x.index]
      [] x.kind = "Memory" ->
            [kind |-> "Memory", name |-> to_string(x.name), index |-> x.index]
      [] x.kind = "Table" ->
            [kind |-> "Table", name |-> to_string(x.name), index |-> x.index]

\* The closure of ImportSectionView::to_owned.
WasmImportView_to_owned(x) ==
    CASE x.kind = "Function" ->
            [kind |-> "Function",
             module_name |-> to_string(x.module_name),
             name |-> to_string(x.name),
             type_index |-> x.type_index]
      [] x.kind = "Global" ->
            [kind |-> "Global",
             module_name |-> to_string(x.module_name),
             name |-> to_string(x.name),
             value_type |-> x.value_type,
             is_mutable |-> x.is_mutable]
      [] x.kind = "Memory" ->
            [kind |-> "Memory",
             module_name |-> to_string(x.module_name),
             name |-> to_string(x.name),
             min_pages |-> x.min_pages,
             has_max |-> x.has_max,
             max_pages |-> x.max_pages]
      [] x.kind = "Table" ->
            [kind |-> "Table",
             module_name |-> to_string(x.module_name),
             name |-> to_string(x.name),
             element_type |-> x.element_type,
             min |-> x.min,
             has_max |-> x.has_max,
             max |-> x.max]

\* The closure of DataSectionView::to_owned.
DataBlockView_to_owned(x) ==
    [memory |-> x.memory,
     offset_expression |-> x.offset_expression,
     data |-> to_vec(x.data)]

\* SectionView::to_owned
SectionView_to_owned(s) ==
    CASE s.kind \in {"Type", "Function", "Code", "Memory", "Start", "Global", "Table",
                     "Element"} -> s
      [] s.kind = "Export" ->
            [kind |-> "Export",
             items |-> [i \in DOMAIN s.items |-> WasmExportView_to_owned(s.items[i])]]
      [] s.kind = "Import" ->
            [kind |-> "Import",
             items |-> [i \in DOMAIN s.items |-> WasmImportView_to_owned(s.items[i])]]
      [] s.kind = "Data" ->
            [kind |-> "Data",
             items |-> [i \in DOMAIN s.items |-> DataBlockView_to_owned(s.items[i])]]
      [] s.kind = "Custom" ->
            [kind |-> "Custom", name |-> to_string(s.name), data |-> to_vec(s.data)]

\* ProgramView::to_owned
ProgramView_to_owned(view) ==
    [tag |-> "Program",
     sections |-> [i \in DOMAIN view |-> SectionView_to_owned(view[i])]]

\* sections.iter().find(|x| matches!(x, Section::<kind>(_))): the first
\* section of the kind, if any.
find_section(secs, kind) ==
    IF \E i \in DOMAIN secs : secs[i].kind = kind
    THEN [some |-> TRUE,
          val |-> secs[CHOOSE i \in DOMAIN secs :
                           /\ secs[i].kind = kind
                           /\ \A j \in 1..(i - 1) : secs[j].kind # kind]]
    ELSE [some |-> FALSE]

\* The values of Result<&T, &'static str>.
Found(val) == [tag |-> "Ok", val |-> val]

NotFound(msg) == [tag |-> "Err", msg |-> msg]

\* exports.iter().find(..) of ProgramView::find_exported_function: the first
\* Function export whose name is `name`; &str == &str compares the bytes.
find_export_view(exports, name) ==
    IF \E i \in DOMAIN exports : exports[i].kind = "Function" /\ exports[i].name = name
    THEN Found(exports[CHOOSE i \in DOMAIN exports :
                   /\ exports[i].kind = "Function" /\ exports[i].name = name
                   /\ \A j \in 1..(i - 1) :
                          ~(exports[j].kind = "Function" /\ exports[j].name = name)])
    ELSE NotFound("could not find export")

\* exports.iter().find(..) of Program::find_exported_function; String == &str
\* compares the bytes.
find_export(exports, name) ==
    IF \E i \in DOMAIN exports :
           exports[i].kind = "Function" /\ exports[i].name.string = name
    THEN Found(exports[CHOOSE i \in DOMAIN exports :
                   /\ exports[i].kind = "Function" /\ exports[i].name.string = name
                   /\ \A j \in 1..(i - 1) :
                          ~(exports[j].kind = "Function" /\ exports[j].name.string = name)])
    ELSE NotFound("could not find export")

\* ProgramView::find_exported_function matching an export of any kind.
ProgramView_find_exported_function_any_kind(secs, name) ==
    IF ~find_section(secs, "Export").some THEN NotFound("could not find export section")
    ELSE IF ~find_section(secs, "Code").some THEN NotFound("could not find code section")
    ELSE IF \E i \in DOMAIN find_section(secs, "Export").val.items :
                find_section(secs, "Export").val.items[i].name = name
         THEN Found(LET exports == find_section(secs, "Export").val.items
                    IN  exports[CHOOSE i \in DOMAIN exports :
                            /\ exports[i].name = name
                            /\ \A j \in 1..(i - 1) : exports[j].name # name])
    ELSE NotFound("could not find export")

ProgramView_find_exported_function(secs, name) ==
    IF ~find_section(secs, "Export").some THEN NotFound("could not find export section")
    ELSE IF ~find_section(secs, "Code").some THEN NotFound("could not find code section")
    ELSE find_export_view(find_section(secs, "Export").val.items, name)

Program_find_exported_function(secs, name) ==
    IF ~find_section(secs, "Export").some THEN NotFound("could not find export section")
    ELSE IF ~find_section(secs, "Code").some THEN NotFound("could not find code section")
    ELSE find_export(find_section(secs, "Export").val.items, name)

\* ProgramView::find_code_block with the bound test off by one.
ProgramView_find_code_block_off_by_one(secs, index) ==
    IF ~find_section(secs, "Code").some THEN NotFound("could find code section")
    ELSE IF index > Len(find_section(secs, "Code").val.items)
         THEN NotFound("invalid code block index")
    ELSE IF index = Len(find_section(secs, "Code").val.items)
         THEN [tag |-> "Panic", msg |-> "index out of bounds"]
    ELSE Found(find_section(secs, "Code").val.items[index + 1])

\* code_blocks[index] is 0-based.
ProgramView_find_code_block(secs, index) ==
    IF ~find_section(secs, "Code").some THEN NotFound("could find code section")
    ELSE IF index >= Len(find_section(secs, "Code").val.items)
         THEN NotFound("invalid code block index")
    ELSE Found(find_section(secs, "Code").val.items[index + 1])

\* Program::find_code_block with its own wording for the missing section.
Program_find_code_block_reworded(secs, index) ==
    IF ~find_section(secs, "Code").some THEN NotFound("could not find code section")
    ELSE IF index >= Len(find_section(secs, "Code").val.items)
         THEN NotFound("invalid code block index")
    ELSE Found(find_section(secs, "Code").val.items[index + 1])

Program_find_code_block(secs, index) ==
    IF ~find_section(secs, "Code").some THEN NotFound("could find code section")
    ELSE IF index >= Len(find_section(secs, "Code").val.items)
         THEN NotFound("invalid code block index")
    ELSE Found(find_section(secs, "Code").val.items[index + 1])

(***************************************************************************)
(* Bounds of the model.                                                    *)
(***************************************************************************)
\* bytes fed after a well-formed header
MaxBody == 6
\* bytes fed after a malformed header
MaxBadTail == 2
\* bytes of an expression handed to wasm_expression / wasm_if_else
MaxExprLen == 7
\* operand bytes handed to wasm_instruction
MaxOperands == 8
\* bytes fed after the start of an import entry
MaxImportTail == 4
\* tokens fed after the start of a section entry that holds an expression
MaxCodeTokens == 5

MaxCodeEntry == 5

MaxCountedTokens == 4
\* whole sections fed after the header
MaxSections == 3
\* largest index handed to find_code_block
MaxBlockIndex == 2
\* sections with an arbitrary length field fed after the header
MaxAnyLength == 1
\* runs of bytes handed to an integer decoder
MaxLebTokens == 3
\* bytes fed from the length prefix of a name on
MaxNameTail == 4
\* bytes fed from a tag byte on
MaxTagTail == 3
\* tokens handed to a primitive or combinator
MaxPrimTokens == 4
\* bytes fed after an opcode that carries immediates
MaxImmediates == 5
\* largest count handed to take and many_n
MaxCount == 2

(***************************************************************************)
(* The inputs the runs draw from.                                          *)
(***************************************************************************)
Header == MAGIC_NUMBER \o VERSION_1

\* The header, its proper prefixes, and the header with one byte changed.
HeaderCandidates ==
    {Take(Header, n) : n \in 0..Len(Header)}
      \cup {[Header EXCEPT ![i] = (@ + 1) % 256] : i \in 1..Len(Header)}

\* Section ids Custom, Type, Function, Start and an id outside 0..=11; also lengths,
\* counts and indices.
BodyBytes == {0, 1, 3, 8, 12}

ExprTokens == {<<BLOCK, 64>>, <<LOOP, END>>, <<OP_IF, 64>>, <<OP_ELSE>>, <<END>>, <<NOP>>}

OperandBytes == {0, END}

\* One import entry begun: count 1, then module_name and name.
ImportPrefixes ==
    {Header \o <<SECTION_IMPORT, 0, 1, 0, 0>>,
     Header \o <<SECTION_IMPORT, 0, 1, 1, 97, 1, 98>>}

ImportBytes == {0, 1, 2, 3, I32}

\* One entry begun in each section that holds an expression, up to the
\* expression: Code (size, no locals), Global (type, mutability), Element
\* (table index), Data (memory index).
ExprSectionPrefixes ==
    {Header \o <<SECTION_CODE, 0, 1, 0, 0>>,
     Header \o <<SECTION_GLOBAL, 0, 1, I32, 0>>,
     Header \o <<SECTION_ELEMENT, 0, 1, 0>>,
     Header \o <<SECTION_DATA, 0, 1, 0>>}

CodeEntryTokens ==
    {<<0>>, <<1>>, <<2>>, <<1, I32>>, <<2, I64>>, <<I32_CONST, 42>>, <<END>>}

\* A Function section that declares 2 indices, one that declares 8, one
\* index (or a Custom id, a length, an empty name), a Custom section with an
\* empty name and no data.
CountedTokens ==
    {<<SECTION_FUNCTION, 1, 2>>, <<SECTION_FUNCTION, 1, 8>>, <<0>>, <<SECTION_CUSTOM, 1, 0>>}

CodeTokens == {<<NOP>>, <<END>>, <<252>>, <<BLOCK, 64>>}

\* Well-formed sections.  Names are "a" (97), "b" (98) and "c" (99).
\* Export sections: a as Function 0; a as Table 0, then a as Function 1, b as
\* Memory 0 and c as Global 0; b as Function 2.
\* Code sections: one block, two blocks.  A Custom section a with one byte
\* of data, an Import section with one entry of each kind, a Data section
\* with one byte of data, a Start section, a Function section of one index.
SectionChunks ==
    {<<SECTION_EXPORT, 5, 1, 1, 97, DESC_FUNCTION, 0>>,
     <<SECTION_EXPORT, 17, 4, 1, 97, DESC_TABLE, 0, 1, 97, DESC_FUNCTION, 1,
                              1, 98, DESC_MEMORY, 0, 1, 99, DESC_GLOBAL, 0>>,
     <<SECTION_EXPORT, 5, 1, 1, 98, DESC_FUNCTION, 2>>,
     <<SECTION_CODE, 4, 1, 2, 0, END>>,
     <<SECTION_CODE, 8, 2, 2, 0, END, 3, 0, NOP, END>>,
     <<SECTION_CUSTOM, 3, 1, 97, 5>>,
     <<SECTION_IMPORT, 30, 4, 1, 97, 1, 98, DESC_FUNCTION, 0,
                              1, 97, 1, 98, DESC_GLOBAL, LIMIT_MIN_MAX, 1, 2,
                              1, 97, 1, 98, DESC_MEMORY, I32, MUTABLE,
                              1, 97, 1, 98, DESC_TABLE, ANYFUNC, LIMIT_MIN, 1>>,
     <<SECTION_DATA, 8, 1, 0, I32_CONST, 0, END, 1, 9>>,
     <<SECTION_START, 1, 0>>,
     <<SECTION_FUNCTION, 2, 1, 0>>}

ExportNames == {<<97>>, <<98>>, <<99>>}

\* A section begun up to the length prefix of a name: the module_name and
\* the name of an import, the name of an export, the name of a Custom section
\* of 3 bytes.
NamePrefixes ==
    {Header \o <<SECTION_IMPORT, 0, 1>>,
     Header \o <<SECTION_IMPORT, 0, 1, 1, 97>>,
     Header \o <<SECTION_EXPORT, 0, 1>>,
     Header \o <<SECTION_CUSTOM, 3>>}

\* Lengths, "a", and the bytes of U+00C0 (195 128): 128 alone and 195 alone
\* are not UTF-8.
NameTailBytes == {0, 1, 2, 97, 128, 195}

\* A section begun up to a tag byte, with the values the format allows for
\* that byte: the form of a type, a value type in a type signature, in a run
\* of locals and in a global type (of a global and of an imported global),
\* the kind of an import and of an export, the element type of a table, and
\* the flag of the limits of a memory and of a table (declared and imported).
ValueTypeBytes == {I32, I64, F32, F64}

KindBytes == {DESC_FUNCTION, DESC_TABLE, DESC_MEMORY, DESC_GLOBAL}

LimitFlags == {LIMIT_MIN, LIMIT_MIN_MAX}

TagCases ==
    {[prefix |-> <<SECTION_TYPE, 0, 1>>, allowed |-> {FUNC}],
     [prefix |-> <<SECTION_TYPE, 0, 1, FUNC, 1>>, allowed |-> ValueTypeBytes],
     [prefix |-> <<SECTION_CODE, 0, 1, 0, 1, 1>>, allowed |-> ValueTypeBytes],
     [prefix |-> <<SECTION_GLOBAL, 0, 1>>, allowed |-> ValueTypeBytes],
     [prefix |-> <<SECTION_IMPORT, 0, 1, 0, 0, DESC_GLOBAL>>, allowed |-> ValueTypeBytes],
     [prefix |-> <<SECTION_IMPORT, 0, 1, 0, 0>>, allowed |-> KindBytes],
     [prefix |-> <<SECTION_EXPORT, 0, 1, 0>>, allowed |-> KindBytes],
     [prefix |-> <<SECTION_TABLE, 0, 1>>, allowed |-> {ANYFUNC}],
     [prefix |-> <<SECTION_TABLE, 0, 1, ANYFUNC>>, allowed |-> LimitFlags],
     [prefix |-> <<SECTION_MEMORY, 0, 1>>, allowed |-> LimitFlags],
     [prefix |-> <<SECTION_IMPORT, 0, 1, 0, 0, DESC_MEMORY>>, allowed |-> LimitFlags],
     [prefix |-> <<SECTION_IMPORT, 0, 1, 0, 0, DESC_TABLE, ANYFUNC>>,
      allowed |-> LimitFlags]}

TagBytes == {0, 1, 3, 4, END, FUNC, ANYFUNC, I32}

\* The opcodes with a vector of labels or a reserved immediate.
ImmediateOpcodes == {BR_TABLE, CALL_INDIRECT, MEMORY_SIZE, MEMORY_GROW}

\* Indices 0, 1 and 2 (also unreachable, nop and block), the first byte of a
\* two-byte integer, and END.
ImmediateBytes == {0, 1, 2, 129, END}

\* Counts, flags and section ids, END, "a", and the magic number.
PrimTokens == {<<0>>, <<1>>, <<END>>, <<97>>, MAGIC_NUMBER}

\* The element parsers many_n is applied with.
PrimItems == {"u32", "type", "export", "local"}

\* Runs of continuation bytes (high bit set) and final bytes of an LEB128
\* integer.
LebTokens ==
    {<<128, 128, 128, 128>>, <<255, 255, 255, 255, 255>>, <<128>>,
     <<0>>, <<1>>, <<15>>, <<16>>, <<127>>}

\* A well-formed body for each section id but Custom: one entry each (two
\* function indices, a start index).
SectionBody(id) ==
    CASE id = SECTION_TYPE -> <<1, FUNC, 1, I32, 1, I32>>
      [] id = SECTION_IMPORT -> <<1, 1, 97, 1, 98, DESC_FUNCTION, 0>>
      [] id = SECTION_FUNCTION -> <<2, 0, 1>>
      [] id = SECTION_TABLE -> <<1, ANYFUNC, LIMIT_MIN, 1>>
      [] id = SECTION_MEMORY -> <<1, LIMIT_MIN_MAX, 1, 2>>
      [] id = SECTION_GLOBAL -> <<1, I32, MUTABLE, I32_CONST, 0, END>>
      [] id = SECTION_EXPORT -> <<1, 1, 97, DESC_FUNCTION, 0>>
      [] id = SECTION_START -> <<0>>
      [] id = SECTION_ELEMENT -> <<1, 0, I32_CONST, 0, END, 1, 0>>
      [] id = SECTION_CODE -> <<1, 2, 0, END>>
      [] id = SECTION_DATA -> <<1, 0, I32_CONST, 0, END, 1, 9>>

\* Section-length fields: 0, 1, 127 and 128 (two bytes).
LengthFields == {<<0>>, <<1>>, <<127>>, <<128, 1>>}

\* Every section id but Custom with each length field, followed by its body
\* or by its body less the last byte.
AnyLengthChunks ==
    {<<id>> \o lf \o Take(SectionBody(id), Len(SectionBody(id)) - cut) :
        id \in SECTION_TYPE..SECTION_DATA, lf \in LengthFields, cut \in {0, 1}}

(***************************************************************************)
(* The runs.                                                               *)
(***************************************************************************)
NoRet == [tag |-> "None"]

\* The first 8 bytes are exactly the magic and the version.
HasHeader(s) == Len(s) >= Len(Header) /\ Take(s, Len(Header)) = Header

InitWith(inputs, checks, opcodes) ==
    /\ input \in inputs
    /\ overflow_checks \in checks
    /\ phase = "feed"
    /\ fed = 0
    /\ ip = <<>>
    /\ sections = <<>>
    /\ starts = <<>>
    /\ ret = NoRet
    /\ entry = "none"
    /\ op \in opcodes
    /\ out = Err("")
    /\ owned = NoRet
    /\ query = NoRet

Feed(bytes) ==
    /\ phase = "feed"
    /\ input' = input \o bytes
    /\ fed' = fed + 1
    /\ UNCHANGED <<phase, ip, sections, starts, ret, overflow_checks, entry, op, out, owned, query>>

FeedBody ==
    /\ fed < (IF HasHeader(input) THEN MaxBody ELSE MaxBadTail)
    /\ \E b \in BodyBytes : Feed(<<b>>)

FeedToken ==
    \E t \in ExprTokens : Len(input) + Len(t) <= MaxExprLen /\ Feed(t)

FeedOperand ==
    /\ fed < MaxOperands
    /\ \E b \in OperandBytes : Feed(<<b>>)

FeedImport ==
    /\ fed < MaxImportTail
    /\ \E b \in ImportBytes : Feed(<<b>>)

FeedCode ==
    /\ fed < MaxCodeTokens
    /\ \E t \in CodeTokens : Feed(t)

\* parse(input)
Call ==
    /\ phase = "feed"
    /\ phase' = "magic"
    /\ entry' = "parse"
    /\ ip' = input
    /\ UNCHANGED <<input, fed, sections, starts, ret, overflow_checks, op, out, owned, query>>

Return(value) ==
    /\ phase' = "returned"
    /\ ret' = value

\* wasm_module: tag(MAGIC_NUMBER)(input)?
TagMagic ==
    /\ phase = "magic"
    /\ LET r == tag(MAGIC_NUMBER, ip)
       IN  IF r.ok THEN ip' = r.rest /\ phase' = "version" /\ ret' = ret
           ELSE Return([tag |-> "Err", msg |-> r.err]) /\ ip' = ip
    /\ UNCHANGED <<input, fed, sections, starts, overflow_checks, entry, op, out, owned, query>>

\* wasm_module: tag(VERSION_1)(input)?
TagVersion ==
    /\ phase = "version"
    /\ LET r == tag(VERSION_1, ip)
       IN  IF r.ok THEN ip' = r.rest /\ phase' = "sections" /\ ret' = ret
           ELSE Return([tag |-> "Err", msg |-> r.err]) /\ ip' = ip
    /\ UNCHANGED <<input, fed, sections, starts, overflow_checks, entry, op, out, owned, query>>

\* SectionResult with a repeated section kind replacing the entry before it.
SectionResult_merge(r) ==
    IF r.ok
    THEN /\ sections' = IF sections # <<>> /\ sections[Len(sections)].kind = r.val.kind
                         THEN [sections EXCEPT ![Len(sections)] = r.val]
                         ELSE Append(sections, r.val)
         /\ starts' = Append(starts, Len(input) - Len(ip))
         /\ ip' = r.rest
         /\ UNCHANGED <<phase, ret>>
    ELSE /\ IF r.panic THEN phase' = "panicked" /\ ret' = ret
            ELSE IF ip = <<>> THEN Return([tag |-> "Ok", sections |-> sections])
            ELSE Return([tag |-> "Err", msg |-> r.err])
         /\ UNCHANGED <<ip, sections, starts>>

\* SectionResult leaving the cursor and the sections alone after a section
\* that decoded.
SectionResult_keeps_cursor(r) ==
    IF r.ok
    THEN UNCHANGED <<sections, starts, ip, phase, ret>>
    ELSE /\ IF r.panic THEN phase' = "panicked" /\ ret' = ret
            ELSE IF ip = <<>> THEN Return([tag |-> "Ok", sections |-> sections])
            ELSE Return([tag |-> "Err", msg |-> r.err])
         /\ UNCHANGED <<ip, sections, starts>>

\* wasm_module: the match on section(ip)'s result r.  A panic ends the run
\* without a return value.
SectionResult(r) ==
    IF r.ok
    THEN /\ sections' = Append(sections, r.val)
         /\ starts' = Append(starts, Len(input) - Len(ip))
         /\ ip' = r.rest
         /\ UNCHANGED <<phase, ret>>
    ELSE /\ IF r.panic THEN phase' = "panicked" /\ ret' = ret
            ELSE IF ip = <<>> THEN Return([tag |-> "Ok", sections |-> sections])
            ELSE Return([tag |-> "Err", msg |-> r.err])
         /\ UNCHANGED <<ip, sections, starts>>

\* wasm_module: one turn of the loop.
SectionStep ==
    /\ phase = "sections"
    /\ SectionResult(section(ip, overflow_checks))
    /\ UNCHANGED <<input, fed, overflow_checks, entry, op, out, owned, query>>

Decode(name, result) ==
    /\ phase = "feed"
    /\ phase' = "decoded"
    /\ entry' = name
    /\ out' = result
    /\ UNCHANGED <<input, fed, ip, sections, starts, ret, overflow_checks, op, owned, query>>

DecodeExpression == Decode("expression", wasm_expression(input))

DecodeIfElse == Decode("if_else", wasm_if_else(input))

DecodeInstruction == Decode("instruction", wasm_instruction(op, input))

Parse == Call \/ TagMagic \/ TagVersion \/ SectionStep

FeedSection ==
    /\ fed < MaxSections
    /\ \E chunk \in SectionChunks : Feed(chunk)

FeedName ==
    /\ fed < MaxNameTail
    /\ \E b \in NameTailBytes : Feed(<<b>>)

FeedPrim ==
    /\ fed < MaxPrimTokens
    /\ \E t \in PrimTokens : Feed(t)

ApplyTag == Decode("tag", tag(MAGIC_NUMBER, input))

ApplyTake == \E num \in 0..MaxCount : Decode("take", take(num, input))

ApplyManyN ==
    \E n \in 0..MaxCount : \E kind \in PrimItems : Decode("many_n", many_n(n, kind, input))

ApplyString == Decode("wasm_string", wasm_string(input))

ApplyLimit == Decode("wasm_limit", wasm_limit(input))

ApplySection == Decode("section", section(input, overflow_checks))

FeedImmediate ==
    /\ fed < MaxImmediates
    /\ \E b \in ImmediateBytes : Feed(<<b>>)

\* wasm_expression on the opcode followed by the bytes fed.
DecodeOpExpression == Decode("op_expression", wasm_expression(<<op>> \o input))

\* One entry of the Code section: sizes, counts, runs of locals, a constant
\* and the terminator.
FeedCodeEntry ==
    /\ fed < MaxCodeEntry
    /\ \E t \in CodeEntryTokens : Feed(t)

DecodeCode == Decode("code", code_item(input))

\* Sections and pieces of sections after the header.
FeedCounted ==
    /\ fed < MaxCountedTokens
    /\ \E t \in CountedTokens : Feed(t)

FeedTag ==
    /\ fed < MaxTagTail
    /\ \E b \in TagBytes : Feed(<<b>>)

FeedLeb ==
    /\ fed < MaxLebTokens
    /\ \E t \in LebTokens : Feed(t)

DecodeU32 == Decode("u32", wasm_u32(input))

DecodeI32 == Decode("i32", wasm_i32(input))

DecodeI64 == Decode("i64", wasm_i64(input))

FeedAnyLength ==
    /\ fed < MaxAnyLength
    /\ \E chunk \in AnyLengthChunks : Feed(chunk)

\* view.to_owned() on the ProgramView parse returned.
ToOwned ==
    /\ phase = "returned" /\ ret.tag = "Ok"
    /\ owned = NoRet
    /\ owned' = ProgramView_to_owned(ret.sections)
    /\ UNCHANGED <<input, phase, fed, ip, sections, starts, ret, overflow_checks, entry, op,
                   out, query>>

\* A lookup on the ProgramView parse returned.
ViewLookup(method, arg, result) ==
    /\ phase = "returned" /\ ret.tag = "Ok"
    /\ query' = [on |-> "ProgramView", method |-> method, arg |-> arg, result |-> result]
    /\ UNCHANGED <<input, phase, fed, ip, sections, starts, ret, overflow_checks, entry, op,
                   out, owned>>

\* A lookup on the Program made from it.
ProgramLookup(method, arg, result) ==
    /\ owned # NoRet
    /\ query' = [on |-> "Program", method |-> method, arg |-> arg, result |-> result]
    /\ UNCHANGED <<input, phase, fed, ip, sections, starts, ret, overflow_checks, entry, op,
                   out, owned>>

ViewFindExportedFunction ==
    \E name \in ExportNames :
        ViewLookup("find_exported_function", name,
                   ProgramView_find_exported_function(ret.sections, name))

ViewFindCodeBlock ==
    \E index \in 0..MaxBlockIndex :
        ViewLookup("find_code_block", index,
                   ProgramView_find_code_block(ret.sections, index))

ProgramFindExportedFunction ==
    \E name \in ExportNames :
        ProgramLookup("find_exported_function", name,
                      Program_find_exported_function(owned.sections, name))

ProgramFindCodeBlock ==
    \E index \in 0..MaxBlockIndex :
        ProgramLookup("find_code_block", index,
                      Program_find_code_block(owned.sections, index))

\* parse on a header candidate followed by bytes.
Init == InitWith(HeaderCandidates, BOOLEAN, {0})

Next == FeedBody \/ Parse

Spec == Init /\ [][Next]_vars

\* The inputs of up to k tokens after the header, and the cursors a run of
\* parse over them can hold in the loop of wasm_module.
RECURSIVE CountedRuns(_)
CountedRuns(k) ==
    IF k = 0 THEN {<<>>}
    ELSE CountedRuns(k - 1) \cup {r \o t : r \in CountedRuns(k - 1), t \in CountedTokens}

CountedCursors ==
    UNION {{Drop(r, n) : n \in 0..Len(r)} : r \in CountedRuns(MaxCountedTokens)}

\* section(ip) for each of these cursors and both build profiles.
SectionTable ==
    [c \in CountedCursors |-> [checks \in BOOLEAN |-> section(c, checks)]]

\* SectionStep with section(ip) read from SectionTable.
SectionStepTabled ==
    /\ phase = "sections"
    /\ SectionResult(SectionTable[ip][overflow_checks])
    /\ UNCHANGED <<input, fed, overflow_checks, entry, op, out, owned, query>>

\* parse runs on one thread: once called, each statement of wasm_module is
\* followed by the next, so a step of the run that is possible is taken.
Running == TagMagic \/ TagVersion \/ SectionStepTabled

\* Runs of parse over sections whose counts may exceed the bytes left.
InitCounted == InitWith({Header}, BOOLEAN, {0})

NextCounted == FeedCounted \/ Parse

SpecCounted == InitCounted /\ [][NextCounted]_vars /\ WF_vars(Running)

\* wasm_expression and wasm_if_else on token streams.
InitExpr == InitWith({<<>>}, {FALSE}, {0})

NextExpr == FeedToken \/ DecodeExpression \/ DecodeIfElse

SpecExpr == InitExpr /\ [][NextExpr]_vars

\* wasm_instruction on every opcode byte.
InitInstr == InitWith({<<>>}, {FALSE}, 0..255)

NextInstr == FeedOperand \/ DecodeInstruction

SpecInstr == InitInstr /\ [][NextInstr]_vars

\* parse on a module whose first section is an Import section.
InitImport == InitWith(ImportPrefixes, {FALSE}, {0})

NextImport == FeedImport \/ Parse

SpecImport == InitImport /\ [][NextImport]_vars

\* parse on a module whose first section holds an expression.
InitBody == InitWith(ExprSectionPrefixes, {FALSE}, {0})

NextBody == FeedCode \/ Parse

SpecBody == InitBody /\ [][NextBody]_vars

\* parse on a module of well-formed sections, then to_owned and the lookups.
InitProgram == InitWith({Header}, {FALSE}, {0})

NextProgram ==
    \/ FeedSection
    \/ Parse
    \/ ToOwned
    \/ ViewFindExportedFunction
    \/ ViewFindCodeBlock
    \/ ProgramFindExportedFunction
    \/ ProgramFindCodeBlock

SpecProgram == InitProgram /\ [][NextProgram]_vars

\* parse on a module whose first section arrives at a name.
InitNames == InitWith(NamePrefixes, BOOLEAN, {0})

NextNames == FeedName \/ Parse

SpecNames == InitNames /\ [][NextNames]_vars

\* parse on a module whose first section arrives at a tag byte.
InitTags == InitWith({Header \o c.prefix : c \in TagCases}, {FALSE}, {0})

NextTags == FeedTag \/ Parse

SpecTags == InitTags /\ [][NextTags]_vars

\* wasm_instruction on the opcodes that carry labels or a reserved immediate,
\* alone and at the head of an expression.
InitImmediates == InitWith({<<>>}, {FALSE}, ImmediateOpcodes)

NextImmediates == FeedImmediate \/ DecodeInstruction \/ DecodeOpExpression

SpecImmediates == InitImmediates /\ [][NextImmediates]_vars

\* The entries of the Code section.
InitCode == InitWith({<<>>}, {FALSE}, {0})

NextCode == FeedCodeEntry \/ DecodeCode

SpecCode == InitCode /\ [][NextCode]_vars

\* The primitives and combinators on runs of tokens.
InitPrim == InitWith({<<>>}, BOOLEAN, {0})

NextPrim ==
    \/ FeedPrim
    \/ ApplyTag
    \/ ApplyTake
    \/ ApplyManyN
    \/ DecodeU32
    \/ ApplyString
    \/ ApplyLimit
    \/ DecodeExpression
    \/ ApplySection

SpecPrim == InitPrim /\ [][NextPrim]_vars

\* wasm_u32, wasm_i32 and wasm_i64 on runs of bytes.
InitLeb == InitWith({<<>>}, {FALSE}, {0})

NextLeb == FeedLeb \/ DecodeU32 \/ DecodeI32 \/ DecodeI64

SpecLeb == InitLeb /\ [][NextLeb]_vars

\* parse on a module whose sections carry arbitrary length fields.
InitAnyLength == InitWith({Header}, {FALSE}, {0})

NextAnyLength == FeedAnyLength \/ Parse

SpecAnyLength == InitAnyLength /\ [][NextAnyLength]_vars

(***************************************************************************)
(* Properties of parse (specification Spec).                               *)
(***************************************************************************)
\* C1: an input whose first 8 bytes are not the magic and the version makes
\* parse return an error, and no section is decoded before both have matched:
\* the driver reaches its section loop only with the header consumed.
HeaderRejected ==
    /\ (phase \in {"sections", "panicked"} \/ sections # <<>> \/ starts # <<>>)
          => HasHeader(input) /\ Len(ip) <= Len(input) - Len(Header)
    /\ (phase = "returned" /\ ~HasHeader(input))
          => /\ ret.tag = "Err"
             /\ ret.msg \in {"trying to tag too many bytes", "did not match tag"}
    /\ (phase = "returned" /\ ret.tag = "Ok") => HasHeader(input)

\* A wrong version followed by further bytes has been rejected.
HeaderRejectedWitness ==
    /\ phase = "returned"
    /\ Len(input) > Len(Header)
    /\ Take(input, Len(MAGIC_NUMBER)) = MAGIC_NUMBER
    /\ ~HasHeader(input)
    /\ ret.tag = "Err"

\* The section table of the binary format: id byte to section variant.
SectionOfId(id) ==
    CASE id = 0 -> "Custom" [] id = 1 -> "Type" [] id = 2 -> "Import"
      [] id = 3 -> "Function" [] id = 4 -> "Table" [] id = 5 -> "Memory"
      [] id = 6 -> "Global" [] id = 7 -> "Export" [] id = 8 -> "Start"
      [] id = 9 -> "Element" [] id = 10 -> "Code" [] id = 11 -> "Data"
      [] OTHER -> "none"

\* C2: the sections list has one entry per section decoded from the input, in
\* input order, the variant of each being the one of the id byte at which that
\* section began; the sections are contiguous from the end of the header, and
\* a successful parse returns exactly that list (repeated ids stay separate).
SectionsPreserved ==
    /\ Len(sections) = Len(starts)
    /\ \A i \in 1..Len(starts) :
          /\ starts[i] < Len(input)
          /\ sections[i].kind = SectionOfId(input[starts[i] + 1])
          /\ starts[i] >= Len(Header)
          /\ i > 1 => starts[i] >= starts[i - 1] + 2
    /\ (starts # <<>>) => starts[1] = Len(Header)
    /\ (phase = "returned" /\ ret.tag = "Ok")
          => /\ ret.sections = sections
             /\ Len(ret.sections) = Len(starts)

\* Two sections with the same id have been returned as two entries.
SectionsPreservedWitness ==
    /\ phase = "returned"
    /\ ret.tag = "Ok"
    /\ Len(ret.sections) >= 2
    /\ ret.sections[1].kind = ret.sections[2].kind
    /\ input[starts[1] + 1] = input[starts[2] + 1]

\* C3: after a valid header parse returns Ok exactly when a section decode
\* fails with the cursor at the end of the input, and Err whenever a section
\* decode fails while unconsumed bytes remain; every run of the driver that
\* has left the section loop has returned one of the two.
DriverReturns ==
    /\ (phase = "returned" /\ ret.tag = "Ok") => ip = <<>>
    /\ (phase = "returned" /\ ret.tag = "Err" /\ HasHeader(input)) => ip # <<>>
    /\ (phase = "returned" /\ input = Header) => ret = [tag |-> "Ok", sections |-> <<>>]
    /\ (entry = "parse" /\ HasHeader(input) /\ phase \notin {"magic", "version", "sections"})
          => phase = "returned" /\ ret.tag \in {"Ok", "Err"}

\* C4: when parse fails after k sections were decoded, the value it returns
\* carries those k sections beside the error message.
FailureCarriesSections ==
    (phase = "returned" /\ ret.tag = "Err" /\ Len(sections) >= 1)
       => /\ "sections" \in DOMAIN ret
          /\ ret.sections = sections
          /\ "msg" \in DOMAIN ret

(***************************************************************************)
(* Properties of the expression decoders (specification SpecExpr).  The    *)
(* streams are made of the opcodes of ExprTokens; the operators below read *)
(* such a stream with an explicit nesting depth instead of by recursive    *)
(* descent.                                                                *)
(***************************************************************************)
Structured == {BLOCK, LOOP, OP_IF}

\* The width of the instruction starting at s[k]: an opcode of Structured is
\* followed by its block-type byte.
Width(s, k) == IF s[k] \in Structured THEN 2 ELSE 1

\* The index of the first byte of `stops` at nesting depth 0 at an opcode
\* position of s from k on, or 0 when there is none.
RECURSIVE Terminator(_, _, _, _)
Terminator(s, k, depth, stops) ==
    IF k > Len(s) THEN 0
    ELSE IF depth = 0 /\ s[k] \in stops THEN k
    ELSE IF s[k] \in Structured THEN Terminator(s, k + 2, depth + 1, stops)
    ELSE IF s[k] = END THEN Terminator(s, k + 1, depth - 1, stops)
    ELSE Terminator(s, k + 1, depth, stops)

\* The opcodes at nesting depth 0 of s[k..last], in order.
RECURSIVE TopOpcodes(_, _, _, _)
TopOpcodes(s, k, last, depth) ==
    IF k > last THEN <<>>
    ELSE IF s[k] \in Structured
         THEN (IF depth = 0 THEN <<s[k]>> ELSE <<>>) \o TopOpcodes(s, k + 2, last, depth + 1)
    ELSE IF s[k] = END THEN TopOpcodes(s, k + 1, last, depth - 1)
    ELSE (IF depth = 0 THEN <<s[k]>> ELSE <<>>) \o TopOpcodes(s, k + 1, last, depth)

\* How many bytes equal to b stand at an opcode position of s[k..last].
RECURSIVE OpcodeCount(_, _, _, _)
OpcodeCount(s, k, last, b) ==
    IF k > last THEN 0
    ELSE (IF s[k] = b THEN 1 ELSE 0) + OpcodeCount(s, k + Width(s, k), last, b)

VariantOf(b) ==
    CASE b = BLOCK -> "Block" [] b = LOOP -> "Loop" [] b = OP_IF -> "If"
      [] b = NOP -> "Nop" [] OTHER -> "none"

Variants(code) == [i \in 1..Len(code) |-> VariantOf(code[i])]

Ops(instructions) == [i \in 1..Len(instructions) |-> instructions[i].op]

\* The Block, Loop and If nodes of an instruction tree.
RECURSIVE Nodes(_)
Nodes(instructions) ==
    IF instructions = <<>> THEN 0
    ELSE LET i == Head(instructions)
         IN  (IF i.op \in {"Block", "Loop", "If"} THEN 1 ELSE 0)
               + Nodes(i.body) + Nodes(i.els) + Nodes(Tail(instructions))

\* The If nodes of an instruction tree that have an else-branch.
RECURSIVE ElseNodes(_)
ElseNodes(instructions) ==
    IF instructions = <<>> THEN 0
    ELSE LET i == Head(instructions)
         IN  (IF i.op = "If" /\ i.has_else THEN 1 ELSE 0)
               + ElseNodes(i.body) + ElseNodes(i.els) + ElseNodes(Tail(instructions))

Consumed == Len(input) - Len(out.rest)

Decoded(name) == phase = "decoded" /\ entry = name

\* C5: wasm_expression returns the instructions that stand before the first
\* END at its own nesting level, in source order; it consumes that END (the
\* returned cursor starts right after it) and does not emit it; when the input
\* holds no such END the decode fails.
ExpressionStopsAtEnd ==
    Decoded("expression") =>
        LET stop == Terminator(input, 1, 0, {END})
        IN  /\ out.ok =>
                 /\ stop > 0
                 /\ Consumed = stop
                 /\ input[Consumed] = END
                 /\ out.rest = Drop(input, stop)
                 /\ Ops(out.val) = Variants(TopOpcodes(input, 1, stop - 1, 0))
            /\ stop = 0 => ~out.ok

\* An expression with instructions before its END and bytes after it.
ExpressionStopsAtEndWitness ==
    /\ Decoded("expression")
    /\ out.ok
    /\ Len(out.val) >= 2
    /\ out.val[1].op # out.val[2].op
    /\ out.rest # <<>>

NestedBlocks ==
    Instr("Block", <<64>>, <<>>,
          <<Instr("Block", <<64>>, <<>>, <<>>, FALSE, <<>>)>>, FALSE, <<>>)

\* C6: in a decoded expression every Block, Loop and If consumed one END of
\* its own: the END opcodes consumed are one more than the Block, Loop and If
\* nodes of the tree, and the inner END of 02 40 02 40 0B 0B 0B closes the
\* inner block only.
EndPerStructuredOp ==
    /\ (phase = "decoded" /\ out.ok) =>
          LET tree == IF entry = "expression" THEN out.val ELSE out.val[1] \o out.val[3]
          IN  OpcodeCount(input, 1, Consumed, END) = 1 + Nodes(tree)
    /\ wasm_expression(<<2, 64, 2, 64, 11, 11, 11>>) = Ok(<<>>, <<NestedBlocks>>)

\* A decoded expression with a construct nested in another one.
EndPerStructuredOpWitness ==
    /\ Decoded("expression")
    /\ out.ok
    /\ \E i \in 1..Len(out.val) :
          /\ out.val[i].op \in {"Block", "Loop", "If"}
          /\ Nodes(out.val[i].body) >= 1

I32Const(c) == WithImm("I32Const", <<c>>)

\* C7: an If whose first stream ends at END has no else-branch; one whose
\* first stream ends at ELSE has the stream up to the next END at that level
\* as its else-branch (which may be empty); an ELSE at the level of the
\* else-branch, or at the level of an expression that is not the first stream
\* of an If, makes the decode fail, so every ELSE consumed belongs to one If.
ElseOncePerIf ==
    /\ Decoded("if_else") =>
          LET stop == Terminator(input, 1, 0, {END, OP_ELSE})
              after == IF stop > 0 THEN Drop(input, stop) ELSE <<>>
              stop2 == Terminator(after, 1, 0, {END, OP_ELSE})
          IN  /\ (out.ok /\ stop > 0 /\ input[stop] = END) =>
                    /\ ~out.val[2]
                    /\ out.val[3] = <<>>
                    /\ Consumed = stop
                    /\ Ops(out.val[1]) = Variants(TopOpcodes(input, 1, stop - 1, 0))
              /\ (out.ok /\ stop > 0 /\ input[stop] = OP_ELSE) =>
                    /\ out.val[2]
                    /\ stop2 > 0
                    /\ after[stop2] = END
                    /\ Consumed = stop + stop2
                    /\ Ops(out.val[1]) = Variants(TopOpcodes(input, 1, stop - 1, 0))
                    /\ Ops(out.val[3]) = Variants(TopOpcodes(after, 1, stop2 - 1, 0))
              /\ out.ok => stop > 0
              /\ (stop > 0 /\ input[stop] = OP_ELSE /\ stop2 > 0 /\ after[stop2] = OP_ELSE)
                    => ~out.ok
              /\ out.ok =>
                    OpcodeCount(input, 1, Consumed, OP_ELSE)
                       = (IF out.val[2] THEN 1 ELSE 0) + ElseNodes(out.val[1] \o out.val[3])
    /\ Decoded("expression") =>
          LET stop == Terminator(input, 1, 0, {END, OP_ELSE})
          IN  /\ (stop > 0 /\ input[stop] = OP_ELSE) => ~out.ok
              /\ out.ok => OpcodeCount(input, 1, Consumed, OP_ELSE) = ElseNodes(out.val)
    /\ wasm_expression(<<65, 1, 4, 64, 65, 1, 5, 65, 2, 11, 11>>)
          = Ok(<<>>, <<I32Const(1),
                       Instr("If", <<64>>, <<>>, <<I32Const(1)>>, TRUE, <<I32Const(2)>>)>>)

\* An If decoded with an instruction in each of its two branches.
ElseOncePerIfWitness ==
    /\ Decoded("expression")
    /\ out.ok
    /\ \E i \in 1..Len(out.val) :
          /\ out.val[i].op = "If" /\ out.val[i].has_else
          /\ out.val[i].body # <<>> /\ out.val[i].els # <<>>

(***************************************************************************)
(* Properties of wasm_instruction (specifications SpecInstr and SpecBody). *)
(***************************************************************************)
\* C8: every opcode that decodes yields a variant of its own: no two opcodes
\* decode the same operand bytes to the same variant, and in particular call
\* (0x10) and call_indirect (0x11) yield different variants.
DistinctVariants ==
    (Decoded("instruction") /\ out.ok) =>
        \A other \in (0..255) \ {op} :
            LET o == wasm_instruction(other, input)
            IN  o.ok => o.val.op # out.val.op

\* The opcodes of the WebAssembly 1.0 instruction set.
MvpOpcodes ==
    (UNREACHABLE..OP_ELSE) \cup (END..CALL_INDIRECT) \cup {DROP, SELECT}
       \cup (LOCAL_GET..GLOBAL_SET) \cup (I32_LOAD..F64_REINTERPRET_I64)

\* Where the expression of the first entry starts in an input of
\* ExprSectionPrefixes: after count, size and locals in Code, after the global
\* type in Global, after the index in Element and Data.
ExprStart == IF input[9] \in {SECTION_CODE, SECTION_GLOBAL} THEN 14 ELSE 13

\* The first expression of the module holds byte b at an opcode position
\* before its terminating END.
ExpressionHolds(b) ==
    /\ Len(input) >= ExprStart
    /\ LET code == Drop(input, ExprStart - 1)
           stop == Terminator(code, 1, 0, {END})
       IN  OpcodeCount(code, 1, IF stop = 0 THEN Len(code) ELSE stop, b) > 0

\* C9: an opcode outside the handled set makes wasm_instruction fail with
\* "unknown expression", and with it the whole parse: a module whose first
\* expression holds 0xFC returns that error and no section, so no instruction
\* stands for the unrecognised opcode.
UnknownOpcodeFails ==
    /\ (phase = "returned" /\ ExpressionHolds(252)) =>
          /\ ret = [tag |-> "Err", msg |-> "unknown expression"]
          /\ sections = <<>>
    /\ \A b \in (0..255) \ MvpOpcodes :
          wasm_instruction(b, <<0, 0>>) = Err("unknown expression")

\* A parse that met 0xFC inside a block of the first expression.
UnknownOpcodeFailsWitness ==
    /\ phase = "returned"
    /\ ExpressionHolds(252)
    /\ input[ExprStart] = BLOCK
    /\ ret.tag = "Err"

(***************************************************************************)
(* Properties of the Import section (specification SpecImport).            *)
(***************************************************************************)
\* The kind byte of the first import: it follows the two length-prefixed
\* names, the first of which starts at byte 12 of the input.
KindByte ==
    LET m == input[12]
        n == input[13 + m]
    IN  input[14 + m + n]

\* The bytes after the kind byte of the first import.
KindPayload ==
    LET m == input[12]
        n == input[13 + m]
    IN  Drop(input, 14 + m + n)

ImportDecoded ==
    /\ entry = "parse"
    /\ Len(sections) >= 1
    /\ sections[1].kind = "Import"
    /\ Len(sections[1].items) >= 1

\* C10: the kind byte of an import selects its payload: 0 a type index
\* (Function), 1 an element-type byte and limits (Table), 2 limits (Memory),
\* 3 a value type and a mutability byte (Global).
ImportKindPayload ==
    ImportDecoded =>
        LET i == sections[1].items[1]
            p == KindPayload
        IN  /\ KindByte = 0 => i.kind = "Function" /\ i.type_index = p[1]
            /\ KindByte = 1 => /\ i.kind = "Table"
                               /\ i.element_type = p[1]
                               /\ i.has_max = (p[2] = 1)
                               /\ i.min = p[3]
            /\ KindByte = 2 => /\ i.kind = "Memory"
                               /\ i.has_max = (p[1] = 1)
                               /\ i.min_pages = p[2]
            /\ KindByte = 3 => /\ i.kind = "Global"
                               /\ i.is_mutable = (p[2] = 1)

(***************************************************************************)
(* Properties of ProgramView and Program (specification SpecProgram).      *)
(***************************************************************************)
\* The positions of the sections of a kind in the parsed program.
SectionsOfKind(kind) == {i \in DOMAIN ret.sections : ret.sections[i].kind = kind}

Least(S) == CHOOSE i \in S : \A j \in S : i <= j

\* The bytes of a name of the queried program: a slice in a ProgramView, a
\* String in a Program.
NameBytes(name) == IF query.on = "Program" THEN name.string ELSE name

\* The positions, in the first Export section, of the Function exports whose
\* name is the queried one.
FunctionExportsNamed ==
    LET exports == ret.sections[Least(SectionsOfKind("Export"))].items
    IN  {i \in DOMAIN exports : exports[i].kind = "Function" /\ exports[i].name = query.arg}

\* C11: find_exported_function(name), on a ProgramView and on a Program,
\* returns the first Function export called name of the first Export section,
\* whatever exports of other kinds carry the name and whatever later Export
\* sections hold; it fails with "could not find export section" without an
\* Export section, else with "could not find code section" without a Code
\* section, else with "could not find export" when no such export exists.
FindExportedFunctionFirst ==
    (query # NoRet /\ query.method = "find_exported_function") =>
        IF SectionsOfKind("Export") = {}
        THEN query.result = [tag |-> "Err", msg |-> "could not find export section"]
        ELSE IF SectionsOfKind("Code") = {}
        THEN query.result = [tag |-> "Err", msg |-> "could not find code section"]
        ELSE IF FunctionExportsNamed = {}
        THEN query.result = [tag |-> "Err", msg |-> "could not find export"]
        ELSE /\ query.result.tag = "Ok"
             /\ query.result.val.kind = "Function"
             /\ NameBytes(query.result.val.name) = query.arg
             /\ query.result.val.index =
                    ret.sections[Least(SectionsOfKind("Export"))]
                        .items[Least(FunctionExportsNamed)].index

\* A Program with two Export sections: the first holds the name as a Table
\* export before the Function export, and the lookup returned the latter.
FindExportedFunctionFirstWitness ==
    /\ query # NoRet /\ query.on = "Program" /\ query.method = "find_exported_function"
    /\ Cardinality(SectionsOfKind("Export")) >= 2
    /\ SectionsOfKind("Code") # {}
    /\ LET exports == ret.sections[Least(SectionsOfKind("Export"))].items
       IN  /\ exports[1].kind = "Table" /\ exports[1].name = query.arg
           /\ \E e \in SectionsOfKind("Export") \ {Least(SectionsOfKind("Export"))} :
                  ret.sections[e].items[1].name = query.arg
    /\ query.result.tag = "Ok"
    /\ query.result.val.index = 1

\* C12: find_code_block(index), on a ProgramView and on a Program, returns
\* the block at position index (from 0) of the first Code section; it fails
\* without a Code section and when index is not below the number of blocks of
\* that first Code section, whatever later Code sections hold, and it never
\* indexes outside the vector.
FindCodeBlockInFirst ==
    (query # NoRet /\ query.method = "find_code_block") =>
        IF SectionsOfKind("Code") = {}
        THEN query.result.tag = "Err"
        ELSE LET code_blocks == ret.sections[Least(SectionsOfKind("Code"))].items
             IN  IF query.arg >= Len(code_blocks)
                 THEN query.result.tag = "Err"
                 ELSE /\ query.result.tag = "Ok"
                      /\ query.result.val = code_blocks[query.arg + 1]

\* The first Code section has one block and a later one has two: index 1 is
\* refused, index 0 is answered from the first.
FindCodeBlockInFirstWitness ==
    /\ query # NoRet /\ query.method = "find_code_block"
    /\ query.arg = 1
    /\ Cardinality(SectionsOfKind("Code")) >= 2
    /\ Len(ret.sections[Least(SectionsOfKind("Code"))].items) = 1
    /\ \E c \in SectionsOfKind("Code") : Len(ret.sections[c].items) = 2
    /\ query.result = [tag |-> "Err", msg |-> "invalid code block index"]

\* An owned record o holds what the view record v holds: the same fields, the
\* Strings the bytes of the slices, the Vec<u8>s the bytes of the byte
\* slices, every other field the same value.
SameFields(v, o, strings, vecs) ==
    /\ DOMAIN o = DOMAIN v
    /\ \A f \in DOMAIN v :
           IF f \in strings THEN o[f] = [string |-> v[f]]
           ELSE IF f \in vecs THEN o[f] = [vec |-> v[f]]
           ELSE o[f] = v[f]

SameItems(v, o, strings, vecs) ==
    /\ Len(o.items) = Len(v.items)
    /\ \A k \in DOMAIN v.items : SameFields(v.items[k], o.items[k], strings, vecs)

\* C13: to_owned yields a Program for every ProgramView; it has as many
\* sections, in the same order, each of the same variant (every import and
\* export entry of the same kind too), every string and byte array with the
\* same content and every other field equal.  The view is only read.
ToOwnedPreserves ==
    (owned # NoRet) =>
        /\ owned.tag = "Program"
        /\ Len(owned.sections) = Len(ret.sections)
        /\ \A i \in DOMAIN ret.sections :
               LET v == ret.sections[i]
                   o == owned.sections[i]
               IN  /\ o.kind = v.kind
                   /\ CASE v.kind \in {"Export", "Import"} ->
                               SameItems(v, o, {"name", "module_name"}, {})
                        [] v.kind = "Data" -> SameItems(v, o, {}, {"data"})
                        [] v.kind = "Custom" -> SameFields(v, o, {"name"}, {"data"})
                        [] OTHER -> o = v

\* A Program made from a view with an Import section of four entries, an
\* Export section of four entries and a Custom section.
ToOwnedPreservesWitness ==
    /\ owned # NoRet
    /\ \E i, j, k \in DOMAIN owned.sections :
           /\ owned.sections[i].kind = "Import" /\ Len(owned.sections[i].items) = 4
           /\ owned.sections[j].kind = "Export" /\ Len(owned.sections[j].items) = 4
           /\ owned.sections[k].kind = "Custom" /\ owned.sections[k].data.vec = <<5>>

(***************************************************************************)
(* Properties of the Custom section (specification Spec).                  *)
(***************************************************************************)
\* The offset in `input` at which the decoding of section i ended: where the
\* next section began, or the cursor.
EndOf(i) == IF i < Len(sections) THEN starts[i + 1] ELSE Len(input) - Len(ip)

\* The fields of a Custom section that begins at offset s of `input`; every
\* byte the runs feed is below 128, so each LEB128 field is one byte.
CustomLength(s) == input[s + 2]

CustomNameLength(s) == input[s + 3]

\* C14: a Custom section that decodes has as data exactly the
\* section_length - (bytes of the name's length prefix + bytes of the name)
\* bytes that follow the name: the bytes consumed after the section-length
\* field are section_length in number, and the next section begins right
\* after them.
CustomDataFillsSection ==
    \A i \in DOMAIN sections :
        sections[i].kind = "Custom" =>
            LET s == starts[i]
                body == s + 2
                name_end == body + 1 + CustomNameLength(s)
            IN  /\ sections[i].name = SubSeq(input, body + 2, name_end)
                /\ Len(sections[i].data) = CustomLength(s) - (1 + CustomNameLength(s))
                /\ sections[i].data = SubSeq(input, name_end + 1, body + CustomLength(s))
                /\ EndOf(i) = body + CustomLength(s)

\* A Custom section with a name of one byte and data of one byte, decoded.
CustomDataFillsSectionWitness ==
    \E i \in DOMAIN sections :
        /\ sections[i].kind = "Custom"
        /\ Len(sections[i].name) = 1
        /\ Len(sections[i].data) = 1
        /\ CustomLength(starts[i]) = 3

\* The run ended at a Custom section whose name (length prefix and
\* bytes, all present and valid UTF-8) occupies more bytes than the section
\* length declares.
EndedAtShortCustom ==
    /\ phase \in {"returned", "panicked"}
    /\ HasHeader(input)
    /\ Len(ip) >= 3
    /\ ip[1] = SECTION_CUSTOM
    /\ ip[2] < 1 + ip[3]
    /\ Len(ip) >= 3 + ip[3]
    /\ IsUtf8(SubSeq(ip, 4, 3 + ip[3]))

\* C15: a Custom section whose declared length is smaller than the bytes its
\* name occupies makes the decoding fail with an error value; the subtraction
\* that gives the payload length never aborts the program.
ShortCustomIsError ==
    EndedAtShortCustom => (phase = "returned" /\ ret.tag = "Err")

(***************************************************************************)
(* Properties of the section-length field (specification SpecAnyLength).   *)
(***************************************************************************)
\* The cursor with the section-length field after the id replaced by lf; r
\* is the reading of the field in place.
WithLength(cur, r, lf) == <<cur[1]>> \o lf \o r.rest

LengthIgnored(cur, r) ==
    r.ok => \A lf \in LengthFields :
                section(WithLength(cur, r, lf), overflow_checks)
                    = section(cur, overflow_checks)

\* C16: for every section id other than Custom the section-length field is
\* read and discarded: the decoded section, whether the decoding succeeds,
\* and the bytes left after the body are the same for every value of the
\* field.
SectionLengthDiscarded ==
    (phase = "sections" /\ ip # <<>> /\ ip[1] # SECTION_CUSTOM) =>
        LengthIgnored(ip, wasm_u32(Drop(ip, 1)))

\* A Data section that declares 0 bytes and one that declares 128, decoded
\* with a body of 8 bytes.
SectionLengthDiscardedWitness ==
    /\ phase = "returned" /\ ret.tag = "Ok"
    /\ Len(ret.sections) = 1
    /\ ret.sections[1].kind = "Data"
    /\ Len(ret.sections[1].items) = 1
    /\ input[Len(Header) + 2] \in {0, 128}

(***************************************************************************)
(* Properties of the integer decoders (specification SpecLeb).             *)
(***************************************************************************)
\* The position of the first byte of the input without the continuation
\* bit, 0 when there is none.
FirstFinalByte ==
    IF \E i \in DOMAIN input : input[i] < 128
    THEN Least({i \in DOMAIN input : input[i] < 128})
    ELSE 0

\* What the primitive under the applied decoder reports.
Extracted ==
    CASE entry = "u32" -> try_extract_u32(input)
      [] entry = "i32" -> try_extract_i32(input)
      [] entry = "i64" -> try_extract_i64(input)

MaxLebBytes == IF entry = "i64" THEN 10 ELSE 5

\* C17: an unsigned or signed 32-bit LEB128 integer that does not end within
\* 5 bytes, and a signed 64-bit one that does not end within 10, make the
\* decoder fail; when wasm_u32, wasm_i32 or wasm_i64 succeeds, the cursor has
\* advanced by exactly the number of bytes the primitive reported.
LebBounded ==
    (phase = "decoded" /\ entry \in {"u32", "i32", "i64"}) =>
        /\ (FirstFinalByte = 0 \/ FirstFinalByte > MaxLebBytes) => ~out.ok
        /\ out.ok => /\ Extracted.ok
                     /\ Extracted.val[2] = FirstFinalByte
                     /\ out.rest = Drop(input, Extracted.val[2])

\* wasm_i64 decoded an integer of 10 bytes: 9 with the continuation bit and
\* a final one.
LebBoundedWitness ==
    /\ phase = "decoded" /\ entry = "i64"
    /\ out.ok
    /\ Len(input) - Len(out.rest) = 10
    /\ FirstFinalByte = 10

(***************************************************************************)
(* Properties of names (specification SpecNames).                          *)
(***************************************************************************)
\* The names of a decoded section.
NamesOf(sec) ==
    CASE sec.kind = "Custom" -> {sec.name}
      [] sec.kind = "Export" -> {sec.items[k].name : k \in DOMAIN sec.items}
      [] sec.kind = "Import" ->
            {sec.items[k].name : k \in DOMAIN sec.items}
                \cup {sec.items[k].module_name : k \in DOMAIN sec.items}
      [] OTHER -> {}

\* The cursor at the first name of the first section: after id and length
\* in a Custom section, after id, length and count in the others.
FirstName == Drop(input, Len(Header) + (IF input[Len(Header) + 1] = SECTION_CUSTOM THEN 2 ELSE 3))

\* n is the length prefix read at a name: the run it announces is there.
Present(n) == n.val >= 0 /\ n.val <= Len(n.rest)

RunOf(n) == Take(n.rest, n.val)

AfterRun(n) == Drop(n.rest, n.val)

\* The name at cur is a run of valid UTF-8 that the input holds whole.
GoodName(cur) ==
    wasm_u32(cur).ok /\ Present(wasm_u32(cur)) /\ IsUtf8(RunOf(wasm_u32(cur)))

\* The name at cur announces more bytes than the input holds, or its bytes
\* are not valid UTF-8.
BadName(cur) ==
    wasm_u32(cur).ok /\ (~Present(wasm_u32(cur)) \/ ~IsUtf8(RunOf(wasm_u32(cur))))

\* C18: in a successful parse every name of every Import (module_name and
\* name), Export and Custom section is valid UTF-8 and is exactly the
\* length-prefixed run of bytes of the input; a name whose bytes are not valid
\* UTF-8, or whose declared length exceeds the input left, makes the parse
\* fail.
NamesAreInputRuns ==
    /\ (phase = "returned" /\ ret.tag = "Ok") =>
          /\ \A i \in DOMAIN ret.sections : \A name \in NamesOf(ret.sections[i]) : IsUtf8(name)
          /\ ret.sections # <<>>
          /\ LET first == ret.sections[1]
             IN  CASE first.kind = "Custom" -> first.name = RunOf(wasm_u32(FirstName))
                   [] first.kind = "Export" ->
                         first.items[1].name = RunOf(wasm_u32(FirstName))
                   [] first.kind = "Import" ->
                         /\ first.items[1].module_name = RunOf(wasm_u32(FirstName))
                         /\ first.items[1].name
                                = RunOf(wasm_u32(AfterRun(wasm_u32(FirstName))))
    /\ (/\ phase \in {"returned", "panicked"}
        /\ \/ BadName(FirstName)
           \/ /\ input[Len(Header) + 1] = SECTION_IMPORT
              /\ GoodName(FirstName)
              /\ BadName(AfterRun(wasm_u32(FirstName))))
           => (phase = "returned" /\ ret.tag = "Err")

\* A successful parse of a Custom section whose name is U+00C0 in two bytes.
NamesAreInputRunsWitness ==
    /\ phase = "returned" /\ ret.tag = "Ok"
    /\ ret.sections[1].kind = "Custom"
    /\ ret.sections[1].name = <<195, 128>>

\* The bytes of the first export entry after its name, when the name is
\* good.
AfterExportName == AfterRun(wasm_u32(FirstName))

TagOutside(c) ==
    /\ Len(input) > Len(Header) + Len(c.prefix)
    /\ Take(input, Len(Header) + Len(c.prefix)) = Header \o c.prefix
    /\ input[Len(Header) + Len(c.prefix) + 1] \notin c.allowed

\* C20: a tag byte outside its allowed set makes the parse fail with an
\* error and never yields a variant: a value-type byte outside I32, I64, F32,
\* F64 in a type signature, a run of locals or a global type, a type form
\* other than the function marker, an import or export kind outside 0..3, a
\* table element type other than anyfunc, a limits flag other than 0 and 1.
TagOutsideSetFails ==
    \A c \in TagCases :
        (phase = "returned" /\ TagOutside(c)) => ret.tag = "Err"

(***************************************************************************)
(* Properties of the primitives and combinators (specification SpecPrim).  *)
(***************************************************************************)
IsSuffix(s, t) == Len(s) <= Len(t) /\ s = Drop(t, Len(t) - Len(s))

Applied ==
    /\ phase = "decoded"
    /\ entry \in {"tag", "take", "many_n", "u32", "wasm_string", "wasm_limit",
                  "expression", "section"}

\* C21 as stated: every application of tag, take, many_n, wasm_u32,
\* wasm_string, wasm_limit, wasm_expression and section either fails or
\* returns a cursor strictly shorter than the one given, a suffix of it.
EveryApplicationAdvances ==
    (Applied /\ out.ok) => (IsSuffix(out.rest, input) /\ Len(out.rest) < Len(input))

\* C21 amended: every application either fails or returns a suffix of the
\* cursor it was given; the suffix is strictly shorter, except that take
\* returns the cursor as given when it takes 0 bytes and many_n when it
\* decodes 0 elements.
ApplicationAdvancesUnlessEmpty ==
    (Applied /\ out.ok) =>
        /\ IsSuffix(out.rest, input)
        /\ IF entry \in {"take", "many_n"}
           THEN (Len(out.rest) = Len(input)) <=> (out.val = <<>>)
           ELSE Len(out.rest) < Len(input)

\* take(0) succeeded on a cursor that is not empty and returned it whole.
ApplicationAdvancesUnlessEmptyWitness ==
    /\ phase = "decoded" /\ entry = "take"
    /\ out.ok
    /\ out.val = <<>>
    /\ input # <<>>
    /\ out.rest = input

(***************************************************************************)
(* Properties of limits (specification SpecTags).                          *)
(***************************************************************************)
\* The limits (min, has_max, max) held by a decoded section.
LimitsOf(sec) ==
    CASE sec.kind = "Memory" ->
            {<<sec.items[k].min_pages, sec.items[k].has_max, sec.items[k].max_pages>> :
                k \in DOMAIN sec.items}
      [] sec.kind = "Table" ->
            {<<sec.items[k].min, sec.items[k].has_max, sec.items[k].max>> :
                k \in DOMAIN sec.items}
      [] sec.kind = "Import" ->
            {<<sec.items[k].min_pages, sec.items[k].has_max, sec.items[k].max_pages>> :
                k \in {j \in DOMAIN sec.items : sec.items[j].kind = "Memory"}}
              \cup {<<sec.items[k].min, sec.items[k].has_max, sec.items[k].max>> :
                       k \in {j \in DOMAIN sec.items : sec.items[j].kind = "Table"}}
      [] OTHER -> {}

\* C22: in every successfully parsed program every memory, memory import and
\* table limit that has both a minimum and a maximum has min <= max.
LimitsOrdered ==
    (phase = "returned" /\ ret.tag = "Ok") =>
        \A i \in DOMAIN ret.sections : \A l \in LimitsOf(ret.sections[i]) :
            l[2] => l[1] <= l[3]

(***************************************************************************)
(* Properties of block types (specification SpecExpr).                     *)
(***************************************************************************)
\* The block-type bytes stored in the Block, Loop and If nodes of a tree.
RECURSIVE BlockTypes(_)
BlockTypes(instructions) ==
    IF instructions = <<>> THEN {}
    ELSE LET i == Head(instructions)
         IN  (IF i.op \in {"Block", "Loop", "If"} THEN {i.imm[1]} ELSE {})
               \cup BlockTypes(i.body) \cup BlockTypes(i.els)
               \cup BlockTypes(Tail(instructions))

\* C23: in every successfully decoded instruction tree the block-type byte
\* stored in each Block, Loop and If is the void marker 0x40 or the encoding
\* of one of the four value types; any other byte there makes the decode
\* fail.
BlockTypeValid ==
    (Decoded("expression") /\ out.ok) => BlockTypes(out.val) \subseteq {64, I32, I64, F32, F64}

(***************************************************************************)
(* Properties of the Function and Code sections (specification             *)
(* SpecProgram).                                                           *)
(***************************************************************************)
\* C24: in every successfully parsed program that has a Function section and
\* a Code section, the code blocks align 1:1 with the type indices: the two
\* vectors have the same length.
CodeAlignsWithFunctions ==
    (phase = "returned" /\ ret.tag = "Ok") =>
        \A f \in SectionsOfKind("Function") : \A c \in SectionsOfKind("Code") :
            Len(ret.sections[f].items) = Len(ret.sections[c].items)

(***************************************************************************)
(* Properties of unknown section ids (specification Spec).                 *)
(***************************************************************************)
SectionKinds ==
    {"Custom", "Type", "Import", "Function", "Table", "Memory", "Global", "Export",
     "Start", "Element", "Code", "Data"}

\* C25: a section whose id byte is outside 0..=11 makes the parse fail
\* wherever it stands after the header: the run that arrives at it ends with
\* an error, no section is decoded from such an id, and no entry for it is
\* placed in the result.
UnknownSectionIdFails ==
    /\ (/\ phase \in {"returned", "panicked"}
        /\ HasHeader(input)
        /\ ip # <<>>
        /\ ip[1] > SECTION_DATA) => (phase = "returned" /\ ret.tag = "Err")
    /\ \A i \in DOMAIN sections :
           /\ input[starts[i] + 1] <= SECTION_DATA
           /\ sections[i].kind \in SectionKinds

\* The parse failed at a section of id 12 that follows a decoded section.
UnknownSectionIdFailsWitness ==
    /\ phase = "returned"
    /\ ret = [tag |-> "Err", msg |-> "unknow section"]
    /\ sections # <<>>
    /\ ip # <<>> /\ ip[1] = 12

(***************************************************************************)
(* Properties of immediates (specification SpecImmediates).                *)
(***************************************************************************)
\* The unsigned LEB128 integer at s[k]: <<32-bit pattern, width>>, or
\* <<0, 0>> when s holds none there.
RECURSIVE ULebFrom(_, _, _, _)
ULebFrom(s, k, width, acc) ==
    IF k > Len(s) \/ width = 5 THEN <<0, 0>>
    ELSE LET payload == s[k] % 128
             \* bit 31 set: the pattern is read as negative
             digit == IF width = 4 /\ payload >= 8 THEN payload - 16 ELSE payload
             v == acc + digit * Pow128(width)
         IN  IF s[k] >= 128 THEN ULebFrom(s, k + 1, width + 1, v)
             ELSE IF width = 4 /\ payload > 15 THEN <<0, 0>>
             ELSE <<v, width + 1>>

ULeb(s, k) == ULebFrom(s, k, 0, 0)

\* The n integers of s from position k on: <<values, next position>>, or
\* <<<<>>, 0>> when s does not hold them all.
RECURSIVE ULebs(_, _, _, _)
ULebs(s, k, n, vs) ==
    IF n = Len(vs) THEN <<vs, k>>
    ELSE IF ULeb(s, k)[2] = 0 THEN <<<<>>, 0>>
    ELSE ULebs(s, k + ULeb(s, k)[2], n, Append(vs, ULeb(s, k)[1]))

\* The count, the labels and the default label of the br_table whose
\* immediates are the input.
BrTableCount == ULeb(input, 1)

BrTableLabels == ULebs(input, 1 + BrTableCount[2], BrTableCount[1], <<>>)

BrTableDefault == ULeb(input, BrTableLabels[2])

BrTableWhole ==
    /\ BrTableCount[2] > 0
    /\ BrTableCount[1] >= 0 /\ BrTableCount[1] <= Len(input)
    /\ BrTableLabels[2] > 0
    /\ BrTableDefault[2] > 0

\* C26: br_table decodes a u32 count n, then exactly n labels kept in source
\* order, then one default label; the cursor ends right after the default
\* label, and the decode fails when the input ends before all n + 1 labels
\* are read.
BrTableLabelsThenDefault ==
    (Decoded("instruction") /\ op = BR_TABLE) =>
        IF BrTableWhole
        THEN /\ out.ok
             /\ out.val.op = "BrTable"
             /\ out.val.labels = BrTableLabels[1]
             /\ Len(out.val.labels) = BrTableCount[1]
             /\ out.val.imm = <<BrTableDefault[1]>>
             /\ out.rest = Drop(input, BrTableLabels[2] + BrTableDefault[2] - 1)
        ELSE ~out.ok

\* 0E 02 00 01 02 decoded to BrTable([0, 1], 2).
BrTableLabelsThenDefaultWitness ==
    /\ Decoded("instruction") /\ op = BR_TABLE
    /\ input = <<2, 0, 1, 2>>
    /\ out.ok
    /\ out.val.labels = <<0, 1>>
    /\ out.val.imm = <<2>>
    /\ out.rest = <<>>

\* How many bytes of the input the immediates of `op` occupy, the reserved
\* one included, or 0 when the input does not hold them whole; and the
\* position of the reserved one.
ReservedAt == IF op = CALL_INDIRECT THEN 1 + ULeb(input, 1)[2] ELSE 1

ImmediatesWidth ==
    IF op = CALL_INDIRECT /\ ULeb(input, 1)[2] = 0 THEN 0
    ELSE IF ULeb(input, ReservedAt)[2] = 0 THEN 0
    ELSE ReservedAt - 1 + ULeb(input, ReservedAt)[2]

\* The input with the reserved immediate replaced by 0.
ReservedZeroed == Take(input, ReservedAt - 1) \o <<0>> \o Drop(input, ImmediatesWidth)

\* C27: the reserved immediates are consumed and discarded.  After
\* call_indirect the cursor is past the type index and the reserved table
\* index, after memory.size and memory.grow past the reserved integer; the
\* reserved value changes neither the instruction nor the success of the
\* decode, and the next instruction of an expression is decoded from the byte
\* right after it.
ReservedConsumedAndDiscarded ==
    /\ (Decoded("instruction") /\ op \in {CALL_INDIRECT, MEMORY_SIZE, MEMORY_GROW}) =>
          IF ImmediatesWidth = 0 THEN ~out.ok
          ELSE /\ out.ok
               /\ out.rest = Drop(input, ImmediatesWidth)
               /\ out.val.imm = IF op = CALL_INDIRECT THEN <<ULeb(input, 1)[1]>> ELSE <<>>
               /\ out.val = wasm_instruction(op, ReservedZeroed).val
    /\ (/\ Decoded("op_expression")
        /\ op \in {CALL_INDIRECT, MEMORY_SIZE, MEMORY_GROW}
        /\ ImmediatesWidth > 0) =>
          LET following == wasm_expression(Drop(input, ImmediatesWidth))
          IN  /\ out.ok = following.ok
              /\ out.ok => /\ out.val = <<wasm_instruction(op, ReservedZeroed).val>>
                                            \o following.val
                           /\ out.rest = following.rest

\* call_indirect with type index 1 and reserved value 2, then nop and END:
\* the expression holds two instructions.
ReservedConsumedAndDiscardedWitness ==
    /\ Decoded("op_expression") /\ op = CALL_INDIRECT
    /\ input = <<1, 2, NOP, END>>
    /\ out.ok
    /\ Len(out.val) = 2
    /\ out.val[1].imm = <<1>>
    /\ out.val[2].op = "Nop"

\* The value type a byte names.
ValueTypeName(b) ==
    CASE b = I32 -> "I32" [] b = I64 -> "I64" [] b = F32 -> "F32" [] b = F64 -> "F64"
      [] OTHER -> "none"

\* The n runs of locals of s from position k on, each an integer and a value
\* type byte: <<runs, next position>>, or <<<<>>, 0>> when s does not hold them.
RECURSIVE LocalRuns(_, _, _, _)
LocalRuns(s, k, n, runs) ==
    IF n = Len(runs) THEN <<runs, k>>
    ELSE LET width == ULeb(s, k)[2]
         IN  IF width = 0 \/ k + width > Len(s) THEN <<<<>>, 0>>
             ELSE IF ValueTypeName(s[k + width]) = "none" THEN <<<<>>, 0>>
             ELSE LocalRuns(s, k + width + 1, n,
                            Append(runs, <<ULeb(s, k)[1], ValueTypeName(s[k + width])>>))

\* The width of the body size of the Code entry fed, the position of its
\* count of runs, and its runs.
BodySizeWidth == ULeb(input, 1)[2]

RunCountAt == 1 + BodySizeWidth

EntryRuns ==
    LocalRuns(input, RunCountAt + ULeb(input, RunCountAt)[2], ULeb(input, RunCountAt)[1], <<>>)

\* C28: a Code entry is a body size that is read and ignored, a counted
\* vector of runs of locals (count, value type) in source order, then one
\* expression up to its END.  The result and the bytes consumed do not depend
\* on the value of the body size; a body with no locals and the bytes
\* 41 2A 0B has locals = [] and code_expression = [I32Const(42)].
CodeEntryIgnoresBodySize ==
    Decoded("code") =>
        /\ BodySizeWidth > 0 =>
              \A size \in {0, 1, 2, 127} :
                  out = code_item(<<size>> \o Drop(input, BodySizeWidth))
        /\ out.ok =>
              /\ BodySizeWidth > 0
              /\ ULeb(input, RunCountAt)[2] > 0
              /\ EntryRuns[2] > 0
              /\ out.val.locals = EntryRuns[1]
              /\ LET expression == wasm_expression(Drop(input, EntryRuns[2] - 1))
                 IN  /\ expression.ok
                     /\ out.val.code_expression = expression.val
                     /\ out.rest = expression.rest
        /\ (BodySizeWidth > 0 /\ Drop(input, BodySizeWidth) = <<0, I32_CONST, 42, END>>) =>
              /\ out.ok
              /\ out.val = [locals |-> <<>>, code_expression |-> <<I32Const(42)>>]
              /\ out.rest = <<>>

\* Body size 1 (the body is longer), two runs of locals, a constant.
CodeEntryIgnoresBodySizeWitness ==
    /\ Decoded("code")
    /\ input = <<1, 2, 1, I32, 2, I64, END>>
    /\ out.ok
    /\ out.val.locals = <<<<1, "I32">>, <<2, "I64">>>>
    /\ out.val.code_expression = <<>>

\* Body size 2 before the three bytes 41 2A 0B and no locals.
CodeEntryExample ==
    /\ Decoded("code")
    /\ input = <<2, 0, I32_CONST, 42, END>>
    /\ out.ok
    /\ out.val.code_expression = <<I32Const(42)>>

\* The run of parse is over: it returned or the thread panicked.
Ended == phase \in {"returned", "panicked"}

\* The count byte of the i-th decoded section, when it is a vector; every
\* byte the runs feed is below 128, so the length and the count are one byte.
CountOf(i) == input[starts[i] + 3]

\* Each decoded section spans its id byte and at least one length byte, and
\* a decoded vector has the elements its count declares, no more of them than
\* the bytes that follow the count.
ConsumesPerElement ==
    \A i \in DOMAIN sections :
        /\ EndOf(i) - starts[i] >= 2
        /\ sections[i].kind \in {"Type", "Function"} =>
              /\ Len(sections[i].items) = CountOf(i)
              /\ CountOf(i) <= EndOf(i) - (starts[i] + 3)

\* A count larger than the bytes left after it ends the run in an error.
TooLargeCountFails ==
    (/\ phase = "returned"
     /\ HasHeader(input)
     /\ Len(ip) >= 3
     /\ ip[1] \in {SECTION_TYPE, SECTION_FUNCTION}
     /\ ip[3] > Len(ip) - 3) => ret.tag = "Err"

\* C29: parse terminates on every finite input whatever counts it declares:
\* the driver loop consumes at least the id byte and one length byte per
\* decoded section and every element of a vector at least one byte, so no
\* vector has more elements than the bytes remaining, a count that is too
\* large ends in an error, and a run of parse that began comes to its end.
ParseTerminates ==
    /\ [](ConsumesPerElement /\ TooLargeCountFails)
    /\ (phase = "magic") ~> Ended

\* A Function section that declares 8 indices and holds 3: the run returned
\* the error of the element that is missing.
ParseTerminatesWitness ==
    /\ phase = "returned"
    /\ input = Header \o <<SECTION_CUSTOM, 1, 0, SECTION_FUNCTION, 1, 8, 0, 0>>
    /\ ret.tag = "Err"
    /\ Len(sections) = 1

\* What the lookup of the state gives when made on the ProgramView that parse
\* returned.
OnView ==
    IF query.method = "find_exported_function"
    THEN ProgramView_find_exported_function(ret.sections, query.arg)
    ELSE ProgramView_find_code_block(ret.sections, query.arg)

\* C30: the helpers of ProgramView and of Program agree: for a view v, a
\* name and an index, find_exported_function(name) on v and on v.to_owned()
\* both fail with the same error string or both succeed with exports of
\* equal name and index, and find_code_block(index) both fail with the same
\* error or both return equal code blocks.
ViewAndOwnedAgree ==
    (query # NoRet /\ query.on = "Program") =>
        /\ query.result.tag = OnView.tag
        /\ query.result.tag = "Err" => query.result.msg = OnView.msg
        /\ (query.result.tag = "Ok" /\ query.method = "find_exported_function") =>
              /\ query.result.val.name.string = OnView.val.name
              /\ query.result.val.index = OnView.val.index
        /\ (query.result.tag = "Ok" /\ query.method = "find_code_block") =>
              query.result.val = OnView.val

\* The Program of a module with Export and Code sections asked for the
\* function b, which the first Export section exports with index 2.
ViewAndOwnedAgreeWitness ==
    /\ query # NoRet /\ query.on = "Program"
    /\ query.method = "find_exported_function"
    /\ query.arg = <<98>>
    /\ query.result.tag = "Ok"
    /\ query.result.val.name.string = <<98>>
    /\ query.result.val.index = 2
====
